---- MODULE Spec2Model ----
(***************************************************************************)
(* redux-flexible-backup: the backup engine (createBackup / loadBackup    *)
(* with its dependency loader), the diff history (createHistory, restore, *)
(* restoreWithRewind) and the undoable reducer (createUndoableReducer).   *)
(***************************************************************************)
EXTENDS Integers, Sequences, FiniteSets, TLC

(***************************************************************************)
(* Bounds of the model.                                                    *)
(***************************************************************************)
\* largest number held by a snapshot leaf in the loadBackup inputs
MaxNum == 1
\* longest string of 'a's the wrapped reducer writes into slice.a
MaxStr == 2
\* longest history the undoable reducer is driven to
MaxHist == 2
\* largest history limit handed to createUndoableReducer
MaxLimit == 1
\* dispatches through the session middleware
MaxDispatch == 2
\* states recorded before a history is iterated
MaxRecords == 3
\* iterations of one history
MaxRuns == 2

(***************************************************************************)
(* JavaScript values.  Scalars are tagged records; a plain object is a     *)
(* function from its own keys to values; undefined is Undef.               *)
(***************************************************************************)
Undef == [t |-> "undefined"]
NaN == [t |-> "NaN"]
Num(n) == [t |-> "number", n |-> n]
Str(s) == [t |-> "string", s |-> s]
Thrown(e) == [t |-> "throw", e |-> e]
Bool(b) == [t |-> "boolean", b |-> b]

IsObj(v) == "t" \notin DOMAIN v
IsNum(v) == (~IsObj(v)) /\ v.t = "number"
IsStr(v) == (~IsObj(v)) /\ v.t = "string"
IsThrown(v) == (~IsObj(v)) /\ v.t = "throw"

EmptyObj == [k \in {} |-> Undef]
\* o[k]: a missing key reads as undefined
Get(o, k) == IF IsObj(o) /\ k \in DOMAIN o THEN o[k] ELSE Undef
\* o[k] = v
Put(o, k, v) == [x \in (DOMAIN o) \cup {k} |-> IF x = k THEN v ELSE o[x]]
\* the own enumerable properties that a spread copies: the keys of an
\* object, the indices of a string or an array, nothing for a number, a
\* boolean or undefined
IndexKey(i) == <<"0", "1", "2", "3", "4", "5", "6", "7", "8", "9">>[i]
OwnProperties(v) ==
  IF IsObj(v) THEN v
  ELSE IF v.t = "string"
  THEN [k \in {IndexKey(i) : i \in 1..Len(v.s)} |->
          [t |-> "string", s |-> <<v.s[CHOOSE i \in 1..Len(v.s) : IndexKey(i) = k]>>]]
  ELSE IF v.t = "array"
  THEN [k \in {IndexKey(i) : i \in 1..Len(v.a)} |->
          v.a[CHOOSE i \in 1..Len(v.a) : IndexKey(i) = k]]
  ELSE EmptyObj
\* { ...a, ...b }
Spread(a, b) ==
  LET l == OwnProperties(a)
      r == OwnProperties(b)
  IN [x \in (DOMAIN l) \cup (DOMAIN r) |-> IF x \in DOMAIN r THEN r[x] ELSE l[x]]

(***************************************************************************)
(* Codec trees.  A node is a codec (save/load pair) or a nested tree with  *)
(* its keys in declaration order.  A codec's load is a short program over  *)
(* the dependency loader: a sequence of needs/update calls, then a return. *)
(***************************************************************************)
Codec(save, ops, ret) == [node |-> "codec", save |-> save, ops |-> ops, ret |-> ret]
Tree(order, kids) == [node |-> "tree", order |-> order, kids |-> kids]
IsCodec(n) == n.node = "codec"

OpNeeds(k) == [op |-> "needs", key |-> k]
OpUpdate(k, patch) == [op |-> "update", key |-> k, patch |-> patch]

\* CopySliceBackupInterface: save: state => state, load: state => state
CopySliceBackupInterface == Codec("copy", <<>>, [r |-> "data"])
\* load: (data, deps) => { const shared = deps.needs(dep);
\*                         deps.update(dep, shared + 1); return data; }
IncrCodec(dep) ==
  Codec("copy", <<OpNeeds(dep), OpUpdate(dep, [p |-> "plus1"])>>, [r |-> "data"])
\* load: (_data, deps) => { const ret = deps.needs(dep)[f].toString();
\*                          deps.update(dep, { [f]: n }); return ret; }
RebuildCodec(dep, f, n) ==
  Codec("first", <<OpNeeds(dep), OpUpdate(dep, [p |-> "field", f |-> f, v |-> Num(n)])>>,
        [r |-> "fieldToString", f |-> f])
\* load: (data, deps) => ({ data, needed: deps.needs(dep) })
NeedsCodec(dep) == Codec("copy", <<OpNeeds(dep)>>, [r |-> "pair"])
\* load: (data, deps) => { deps.update(dep, n); return data; }
SetCodec(dep, n) == Codec("copy", <<OpUpdate(dep, [p |-> "const", v |-> Num(n)])>>,
        [r |-> "data"])
\* save: slice => slice.a + "," + slice.b
\* load: stored => stored === undefined ? undefined
\*                 : { a: stored.split(',')[0], b: stored.split(',')[1] }
sliceBackupInterface == Codec("join", <<>>, [r |-> "split"])
\* save: data => [...data], load: stored => stored ? stored.join('') : undefined
stringBackup == Codec("chars", <<>>, [r |-> "joinChars"])

\* shared + 1: a number is incremented, undefined and NaN give NaN, anything
\* else is converted to a string and "1" is appended
PlusOne(v) ==
  IF IsObj(v) THEN Str(<<"[object Object]", "1">>)
  ELSE CASE v.t = "number" -> Num(v.n + 1)
         [] v.t = "string" -> Str(Append(v.s, "1"))
         [] v.t = "array" -> Str(Append(v.a, "1"))
         [] OTHER -> NaN

\* Segments of a string split at ',' : the text before the first comma, and the
\* text between the first and the second comma (undefined when no comma).
RECURSIVE SplitAt(_, _)
SplitAt(s, acc) ==
  IF s = <<>> THEN <<acc>>
  ELSE IF Head(s) = "," THEN <<acc>> \o SplitAt(Tail(s), <<>>)
  ELSE SplitAt(Tail(s), Append(acc, Head(s)))
Split(s) == SplitAt(s, <<>>)
Part(parts, i) == IF i <= Len(parts) THEN Str(parts[i]) ELSE Undef

\* (n).toString() of a one-digit number
Digit(n) == <<"0", "1", "2", "3", "4", "5", "6", "7", "8", "9">>[n + 1]

\* arrays of characters are tagged apart from strings
Arr(s) == [t |-> "array", a |-> s]
IsArr(v) == (~IsObj(v)) /\ v.t = "array"

\* codec.save(slice)
Save(codec, v) ==
  CASE codec.save = "copy" -> v
    [] codec.save = "join" ->
         IF IsObj(v) /\ IsStr(Get(v, "a")) /\ IsStr(Get(v, "b"))
         THEN Str(Get(v, "a").s \o <<",">> \o Get(v, "b").s)
         ELSE Thrown("TypeError")
    [] codec.save = "chars" -> IF IsStr(v) THEN Arr(v.s) ELSE Thrown("TypeError")
    [] codec.save = "first" ->
         IF IsStr(v) THEN (IF v.s = <<>> THEN Undef ELSE Str(<<Head(v.s)>>))
         ELSE Thrown("TypeError")

\* the value a codec's load returns, from the stored data and the value its
\* last needs call returned
Return(codec, data, needed) ==
  CASE codec.ret.r = "data" -> data
    [] codec.ret.r = "pair" -> [data |-> data, needed |-> needed]
    [] codec.ret.r = "split" ->
         IF data = Undef THEN Undef
         ELSE IF IsStr(data)
         THEN [k \in {"a", "b"} |->
                 Part(Split(data.s), IF k = "a" THEN 1 ELSE 2)]
         ELSE Thrown("TypeError")
    [] codec.ret.r = "joinChars" ->
         IF IsArr(data) THEN Str(data.a) ELSE Undef
    [] codec.ret.r = "fieldToString" ->
         \* needs(dep)[f].toString(): undefined has no fields and no toString
         IF IsObj(needed) /\ IsNum(Get(needed, codec.ret.f))
         THEN Str(<<Digit(Get(needed, codec.ret.f).n)>>)
         ELSE Thrown("TypeError")

NoNode == [node |-> "none"]
\* backupInterface[key]
Loader(tree, key) == IF key \in DOMAIN tree.kids THEN tree.kids[key] ELSE NoNode

(***************************************************************************)
(* createBackup(state, backupInterface)                                    *)
(***************************************************************************)
RECURSIVE createBackupFrom(_, _, _, _)
createBackupFrom(state, tree, i, stored) ==
  IF i > Len(tree.order) THEN stored
  ELSE LET key == tree.order[i]
           loader == Loader(tree, key)
       IN IF loader.node = "none"
          THEN createBackupFrom(state, tree, i + 1, stored)
          ELSE IF state = Undef
          THEN Thrown("TypeError")
          ELSE LET v == IF IsCodec(loader)
                        THEN Save(loader, Get(state, key))
                        ELSE createBackupFrom(Get(state, key), loader, 1, EmptyObj)
               IN IF IsThrown(v) THEN v
                  ELSE createBackupFrom(state, tree, i + 1, Put(stored, key, v))

\* mutant of createBackup: the snapshot starts as a copy of the state
createBackupOverState(state, backupInterface) ==
  createBackupFrom(state, backupInterface, 1, state)

createBackup(state, backupInterface) ==
  createBackupFrom(state, backupInterface, 1, EmptyObj)

(***************************************************************************)
(* loadBackup(state, backupInterface, store).  One call's bookkeeping is   *)
(* the record c: loaded, loadedKeys, loadQueue (in insertion order), the   *)
(* error thrown (if any), and four logs kept for the properties: entered   *)
(* (every LoadKey activation), ran (every codec load or nested loadBackup  *)
(* started), early (every needs(key) called while key's load was in        *)
(* progress) and nested (the bookkeeping each nested loadBackup call ended *)
(* with).                                                                  *)
(***************************************************************************)
NewCall ==
  [loaded |-> EmptyObj, loadedKeys |-> {}, loadQueue |-> <<>>, err |-> "none",
   entered |-> <<>>, ran |-> <<>>, early |-> <<>>, nested |-> <<>>]

\* mutant of NestedCall: the nested call goes on with the loadedKeys and the
\* loadQueue of the call that makes it
NestedCallShared(c) ==
  [NewCall EXCEPT !.loadedKeys = c.loadedKeys, !.loadQueue = c.loadQueue]

\* lines 172-178: the loaded object, loadQueue and loadedKeys that a
\* loadBackup call made inside LoadKey starts with
NestedCall(c) == NewCall

InSeq(x, s) == \E i \in 1..Len(s) : s[i] = x
Without(s, x) == SelectSeq(s, LAMBDA y : y # x)

\* the value passed to update by the codec's program
PatchValue(patch, needed) ==
  CASE patch.p = "plus1" -> PlusOne(needed)
    [] patch.p = "const" -> patch.v
    [] patch.p = "field" -> [k \in {patch.f} |-> patch.v]

\* mutant of MarkLoaded: the key is never added to loadedKeys
MarkLoadedSkipped(c, key) == c

\* loadedKeys.add(key)
MarkLoaded(c, key) == [c EXCEPT !.loadedKeys = @ \cup {key}]

RECURSIVE LoadKey(_, _, _, _, _)
RECURSIVE RunLoad(_, _, _, _, _, _, _)
RECURSIVE LoadLoop(_, _, _, _, _)

\* needs(innerKey) was called with bookkeeping c and left bookkeeping r: a
\* call made while innerKey was in loadQueue is logged with whether the key
\* was in loadedKeys, whether the call returned and whether it returned a
\* value other than undefined
Needed(innerKey, c, r) ==
  IF InSeq(innerKey, c.loadQueue)
  THEN [r EXCEPT !.early =
          Append(@, [key |-> innerKey,
                     marked |-> innerKey \in c.loadedKeys,
                     returned |-> r.err = "none",
                     defined |-> Get(r.loaded, innerKey) # Undef])]
  ELSE r

\* mutant of needs: LoadKey is called without looking at loadedKeys
needsAlwaysLoads(state, tree, store, innerKey, c) ==
  LoadKey(state, tree, store, innerKey, c)

\* mutant of needs: the value is read without loading the key on demand
needsNeverLoads(state, tree, store, innerKey, c) == c

\* dependencyLoader.needs(innerKey): the bookkeeping after the call; the value
\* returned is loaded[innerKey]
needs(state, tree, store, innerKey, c) ==
  Needed(innerKey, c,
         IF innerKey \notin c.loadedKeys
         THEN LoadKey(state, tree, store, innerKey, c)
         ELSE c)

\* mutant of update: the key is loaded but the update is not written
updateDropped(state, tree, store, innerKey, upd, c) ==
  IF innerKey \notin c.loadedKeys
  THEN LoadKey(state, tree, store, innerKey, c)
  ELSE c

\* dependencyLoader.update(innerKey, update)
update(state, tree, store, innerKey, upd, c) ==
  LET c1 == IF innerKey \notin c.loadedKeys
            THEN LoadKey(state, tree, store, innerKey, c)
            ELSE c
  IN IF c1.err # "none" THEN c1
     ELSE IF (~IsObj(upd)) /\ upd.t \in {"number", "NaN", "string", "array"}
     THEN [c1 EXCEPT !.loaded = Put(@, innerKey, upd)]
     ELSE [c1 EXCEPT !.loaded = Put(@, innerKey, Spread(Get(c1.loaded, innerKey), upd))]

\* loader.load(store[key], dependencyLoader): the codec's program from its
\* i-th call on; the result is the bookkeeping and the value returned
RunLoad(state, tree, store, key, i, needed, c) ==
  LET codec == Loader(tree, key)
  IN IF c.err # "none" THEN [c |-> c, value |-> Undef]
     ELSE IF i > Len(codec.ops)
     THEN LET v == Return(codec, Get(store, key), needed)
          IN IF IsThrown(v) THEN [c |-> [c EXCEPT !.err = v.e], value |-> Undef]
             ELSE [c |-> c, value |-> v]
     ELSE LET op == codec.ops[i]
          IN IF op.op = "needs"
             THEN LET c1 == needs(state, tree, store, op.key, c)
                  IN RunLoad(state, tree, store, key, i + 1, Get(c1.loaded, op.key), c1)
             ELSE LET c1 == update(state, tree, store, op.key,
                                   PatchValue(op.patch, needed), c)
                  IN RunLoad(state, tree, store, key, i + 1, needed, c1)

LoadKey(state, tree, store, key, c) ==
  LET c0 == [c EXCEPT !.entered = Append(@, key)]
      loader == Loader(tree, key)
  IN IF key \in c.loadedKeys
     THEN [c0 EXCEPT !.err = "double load"]
     ELSE LET c1 == MarkLoaded(c0, key)
          IN IF loader.node = "none" THEN c1
             ELSE IF Get(c1.loaded, key) # Undef THEN c1
             ELSE IF InSeq(key, c1.loadQueue)
             THEN [c1 EXCEPT !.err = "circular dependency"]
             ELSE LET c2 == [c1 EXCEPT !.loadQueue = Append(@, key)]
                  IN IF store = Undef
                     THEN [c2 EXCEPT !.err = "TypeError"]
                     ELSE IF IsCodec(loader)
                     THEN LET r == RunLoad(state, tree, store, key, 1, Undef,
                                           [c2 EXCEPT !.ran = Append(@, key)])
                          IN IF r.c.err # "none" THEN r.c
                             ELSE [r.c EXCEPT !.loaded = Put(@, key, r.value),
                                              !.loadQueue = Without(@, key)]
                     ELSE LET base == IF Get(state, key) = Undef THEN EmptyObj
                                      ELSE Get(state, key)
                              sub == LoadLoop(base, loader, Get(store, key), 1,
                                              NestedCall(c2))
                          IN IF sub.err # "none"
                             THEN [c2 EXCEPT !.ran = Append(@, key), !.err = sub.err,
                                             !.nested = Append(@, [key |-> key, call |-> sub])]
                             ELSE [c2 EXCEPT !.ran = Append(@, key),
                                             !.loaded = Put(@, key, Spread(base, sub.loaded)),
                                             !.loadQueue = Without(@, key),
                                             !.nested = Append(@, [key |-> key, call |-> sub])]

\* the for loop over the keys of the codec tree, from its i-th key on
LoadLoop(state, tree, store, i, c) ==
  IF c.err # "none" \/ i > Len(tree.order) THEN c
  ELSE IF tree.order[i] \in c.loadedKeys
  THEN LoadLoop(state, tree, store, i + 1, c)
  ELSE LoadLoop(state, tree, store, i + 1,
                LoadKey(state, tree, store, tree.order[i], c))

\* mutant of loadBackup: the base state is spread over the loaded keys
loadBackupBaseWins(state, backupInterface, store) ==
  LET c == LoadLoop(state, backupInterface, store, 1, NewCall)
  IN IF c.err # "none" THEN Thrown(c.err) ELSE Spread(c.loaded, state)

loadBackup(state, backupInterface, store) ==
  LET c == LoadLoop(state, backupInterface, store, 1, NewCall)
  IN IF c.err # "none" THEN Thrown(c.err) ELSE Spread(state, c.loaded)

(***************************************************************************)
(* The diff primitive (jsondiffpatch) on snapshots.  A delta is undefined  *)
(* when the two values are deep-equal; otherwise [left, right] for a       *)
(* replaced value, [right] for an added key, [left, 0, 0] for a deleted    *)
(* key, and an object of deltas for an object whose keys differ.           *)
(***************************************************************************)
Modified(l, r) == [t |-> "modified", l |-> l, r |-> r]
Added(r) == [t |-> "added", r |-> r]
Deleted(l) == [t |-> "deleted", l |-> l]
NodeDelta(d) == [t |-> "node", d |-> d]

RECURSIVE diff(_, _)
diff(left, right) ==
  IF left = right THEN Undef
  ELSE IF IsObj(left) /\ IsObj(right)
  THEN NodeDelta(
         [k \in {x \in (DOMAIN left) \cup (DOMAIN right) :
                   \/ x \notin DOMAIN left
                   \/ x \notin DOMAIN right
                   \/ left[x] # right[x]} |->
            IF k \notin DOMAIN left THEN Added(right[k])
            ELSE IF k \notin DOMAIN right THEN Deleted(left[k])
            ELSE diff(left[k], right[k])])
  ELSE Modified(left, right)

RECURSIVE patch(_, _)
patch(left, delta) ==
  IF delta = Undef THEN left
  ELSE CASE delta.t = "modified" -> delta.r
         [] delta.t = "added" -> delta.r
         [] delta.t = "deleted" -> Undef
         [] delta.t = "node" ->
              LET gone == {x \in DOMAIN delta.d : delta.d[x].t = "deleted"}
              IN [k \in ((DOMAIN left) \cup (DOMAIN delta.d)) \ gone |->
                    IF k \in DOMAIN delta.d
                    THEN patch(Get(left, k), delta.d[k])
                    ELSE left[k]]

\* mutant of reverse: the delta is handed back as it is
reverseSkipped(delta) == delta

RECURSIVE reverse(_)
reverse(delta) ==
  IF delta = Undef THEN Undef
  ELSE CASE delta.t = "modified" -> Modified(delta.r, delta.l)
         [] delta.t = "added" -> Deleted(delta.r)
         [] delta.t = "deleted" -> Added(delta.l)
         [] delta.t = "node" ->
              NodeDelta([k \in DOMAIN delta.d |-> reverse(delta.d[k])])

\* mutant of createHistory: the delta leads from prev to next
createHistoryForward(next, prev) == diff(prev, next)
\* createHistory(next, prev): diff(next, prev)
createHistory(next, prev) == diff(next, prev)
\* restore(current, record): patch(cloneDeep(current), record)
restore(current, record) == patch(current, record)
\* mutant of restoreWithRewind: the record itself is returned as the way back
restoreWithRewindKeepsRecord(current, record) ==
  [restored |-> patch(current, record), diff |-> record]

\* restoreWithRewind(current, record)
restoreWithRewind(current, record) ==
  [restored |-> patch(current, record), diff |-> reverse(record)]

(***************************************************************************)
(* createUndoableReducer.  The envelope is the wrapped reducer's state     *)
(* with the keys history, future (arrays of deltas) and present.           *)
(***************************************************************************)
UndoKeys == {"history", "future", "present"}

\* clippedState = { ...state }; delete history, future, present
Clip(state) == [k \in (DOMAIN state) \ UndoKeys |-> state[k]]
\* list.slice(from, to)
Slice(list, from, to) ==
  IF to <= from THEN <<>>
  ELSE SubSeq(list, from + 1, IF to < Len(list) THEN to ELSE Len(list))
\* list[i]: an index past the end reads as undefined
Nth(list, i) == IF i + 1 <= Len(list) THEN list[i + 1] ELSE Undef
\* list.reverse()
Reversed(list) == [i \in 1..Len(list) |-> list[Len(list) + 1 - i]]
\* state.history, state.future
HistoryOf(state) == Get(state, "history").a
FutureOf(state) == Get(state, "future").a

\* action types, as their segments between '/'
\* getUndoableActionType(feature, type): `${feature}/undoable/${type}`
getUndoableActionType(feature, type) == <<feature, "undoable", type>>
undo == <<"UndoRedo.undo">>
redo == <<"UndoRedo.redo">>
apply == <<"UndoRedo.apply">>
\* action.type.indexOf('/undoable/') !== -1
HasUndoableMarker(type) == \E i \in 2..(Len(type) - 1) : type[i] = "undoable"

\* console output of one reducer call
Silent == "none"
MissingPresent == "Missing present moment. Can't do anything."
CouldNotFindMoment == "Could not find moment"

\* mutant of saveMoment: a delta is recorded even when there is no old present
saveMomentAlwaysDiffs(state, undoInterface, historyLimit) ==
  LET present == createBackup(state, undoInterface)
      kept == IF historyLimit = Undef THEN HistoryOf(state)
              ELSE Slice(HistoryOf(state), 0, historyLimit.n)
      history == <<createHistory(present, Get(state, "present"))>> \o kept
  IN Spread(state, [present |-> present, history |-> Arr(history),
                    future |-> Arr(<<>>)])

\* mutant of saveMoment: the delta leads from the old present to the new one
saveMomentDiffsForward(state, undoInterface, historyLimit) ==
  LET present == createBackup(state, undoInterface)
      kept == IF historyLimit = Undef THEN HistoryOf(state)
              ELSE Slice(HistoryOf(state), 0, historyLimit.n)
      history == (IF Get(state, "present") = Undef THEN <<>>
                  ELSE <<createHistory(Get(state, "present"), present)>>) \o kept
  IN Spread(state, [present |-> present, history |-> Arr(history),
                    future |-> Arr(<<>>)])

\* mutant of saveMoment: the future list is carried over
saveMomentKeepsFuture(state, undoInterface, historyLimit) ==
  LET present == createBackup(state, undoInterface)
      kept == IF historyLimit = Undef THEN HistoryOf(state)
              ELSE Slice(HistoryOf(state), 0, historyLimit.n)
      history == (IF Get(state, "present") = Undef THEN <<>>
                  ELSE <<createHistory(present, Get(state, "present"))>>) \o kept
  IN Spread(state, [present |-> present, history |-> Arr(history)])

saveMoment(state, undoInterface, historyLimit) ==
  LET present == createBackup(state, undoInterface)
      kept == IF historyLimit = Undef THEN HistoryOf(state)
              ELSE Slice(HistoryOf(state), 0, historyLimit.n)
      history == (IF Get(state, "present") = Undef THEN <<>>
                  ELSE <<createHistory(present, Get(state, "present"))>>) \o kept
  IN Spread(state, [present |-> present, history |-> Arr(history),
                    future |-> Arr(<<>>)])

\* mutant of updatePresentMoment: history is left as it is
updatePresentMomentKeepsHistory(state, undoInterface) ==
  LET present == createBackup(state, undoInterface)
  IN IF present = Undef \/ Len(HistoryOf(state)) = 0
     THEN Spread(state, [present |-> present, history |-> Arr(<<>>),
                         future |-> Arr(<<>>)])
     ELSE Spread(state, [present |-> present, future |-> Arr(<<>>)])

\* mutant of updatePresentMoment: an empty history keeps the future list
updatePresentMomentKeepsFuture(state, undoInterface) ==
  LET present == createBackup(state, undoInterface)
  IN IF present = Undef \/ Len(HistoryOf(state)) = 0
     THEN Spread(state, [present |-> present, history |-> Arr(<<>>)])
     ELSE LET lastHistory == restore(Get(state, "present"), HistoryOf(state)[1])
              newHistoryDiff == createHistory(present, lastHistory)
          IN Spread(state, [present |-> present,
                            history |-> Arr(<<newHistoryDiff>>
                                            \o Slice(HistoryOf(state), 1, Len(HistoryOf(state)))),
                            future |-> Arr(<<>>)])

updatePresentMoment(state, undoInterface) ==
  LET present == createBackup(state, undoInterface)
  IN IF present = Undef \/ Len(HistoryOf(state)) = 0
     THEN Spread(state, [present |-> present, history |-> Arr(<<>>),
                         future |-> Arr(<<>>)])
     ELSE LET lastHistory == restore(Get(state, "present"), HistoryOf(state)[1])
              newHistoryDiff == createHistory(present, lastHistory)
          IN Spread(state, [present |-> present,
                            history |-> Arr(<<newHistoryDiff>>
                                            \o Slice(HistoryOf(state), 1, Len(HistoryOf(state)))),
                            future |-> Arr(<<>>)])

\* the rewind loop of restoreMoment, from its i-th round on
RECURSIVE Rewind(_, _, _, _, _)
Rewind(present, list, i, abs, rewinds) ==
  IF i >= abs THEN [present |-> present, rewinds |-> rewinds]
  ELSE LET result == restoreWithRewind(present, Nth(list, i))
       IN Rewind(result.restored, list, i + 1, abs, Append(rewinds, result.diff))

\* the end of restoreMoment (lines 242-257): the consumed entries are sliced
\* out of their list and the rewind deltas are put in front of the other list
Consume(loaded, rewound, distance, abs) ==
  IF distance > 0
  THEN Spread(loaded,
         [history |-> Arr(Slice(HistoryOf(loaded), abs, Len(HistoryOf(loaded)))),
          future |-> Arr(Reversed(rewound.rewinds) \o FutureOf(loaded)),
          present |-> rewound.present])
  ELSE Spread(loaded,
         [future |-> Arr(Slice(FutureOf(loaded), abs, Len(FutureOf(loaded)))),
          history |-> Arr(Reversed(rewound.rewinds) \o HistoryOf(loaded)),
          present |-> rewound.present])

\* mutant of RewindAndLoad: the state is not loaded from the moment reached
RewindWithoutLoad(state, undoInterface, rewound, distance, abs) ==
  Consume(state, rewound, distance, abs)

\* the middle of restoreMoment (lines 220-240): rewind, then load the state
\* from the moment reached
RewindAndLoad(state, undoInterface, rewound, distance, abs) ==
  Consume(loadBackup(state, undoInterface, rewound.present), rewound, distance, abs)

\* mutant of restoreMoment: a missing entry loads the present snapshot into
\* the state
restoreMomentLoadsPresent(state, undoInterface, distance) ==
  IF Get(state, "present") = Undef
  THEN [state |-> state, report |-> MissingPresent]
  ELSE [state |-> loadBackup(state, undoInterface, Get(state, "present")),
        report |-> CouldNotFindMoment]

\* restoreMoment(state, undoInterface, distance): the state returned and the
\* message written to the console
restoreMoment(state, undoInterface, distance) ==
  IF distance = 0 THEN [state |-> state, report |-> "Warning: Restoring moment 0."]
  ELSE IF Get(state, "present") = Undef
  THEN [state |-> state, report |-> MissingPresent]
  ELSE LET list == IF distance > 0 THEN HistoryOf(state) ELSE FutureOf(state)
           abs == IF distance > 0 THEN distance ELSE -distance
       IN IF Nth(list, abs - 1) = Undef
          THEN [state |-> state, report |-> CouldNotFindMoment]
          ELSE [state |-> RewindAndLoad(state, undoInterface,
                            Rewind(Get(state, "present"), list, 0, abs, <<>>),
                            distance, abs),
                report |-> Silent]

\* lines 121-130 of the reducer: undo, redo and apply
HandleUndoRedo(state, type, undoInterface) ==
  IF type = undo \/ type = redo
  THEN restoreMoment(state, undoInterface, IF type = undo THEN 1 ELSE -1)
  ELSE IF type = apply
  THEN [state |-> updatePresentMoment(state, undoInterface), report |-> Silent]
  ELSE [state |-> state, report |-> Silent]

\* mutant of HandleUndoable: every action makes a save moment
HandleUndoableAlways(state, type, isInit, undoInterface, historyLimit) ==
  saveMoment(state, undoInterface, historyLimit)

\* lines 116-119 of the reducer: a save moment for an undoable action and for
\* the initialization call
HandleUndoable(state, type, isInit, undoInterface, historyLimit) ==
  IF HasUndoableMarker(type) \/ isInit
  THEN saveMoment(state, undoInterface, historyLimit)
  ELSE state

\* lines 108-114 of the reducer: the wrapped reducer's result with the
\* current history, future and present migrated over
Migrate(state, reduced) ==
  Spread(reduced,
    [history |-> IF Get(state, "history") = Undef THEN Arr(<<>>)
                 ELSE Get(state, "history"),
     future |-> IF Get(state, "future") = Undef THEN Arr(<<>>)
                ELSE Get(state, "future"),
     present |-> Get(state, "present")])

\* the reducer returned by createUndoableReducer(reducer, undoInterface,
\* historyLimit), applied to (state, action); reduced is what the wrapped
\* reducer returns for (clippedState, action)
\* mutant of undoableReducer: undo and redo do not run the wrapped reducer
undoableReducerSkipsReducer(state, type, reduced, undoInterface, historyLimit) ==
  HandleUndoRedo(
    HandleUndoable(Migrate(state, IF type \in {undo, redo} /\ state # Undef
                                  THEN Clip(state) ELSE reduced),
                   type, state = Undef \/ DOMAIN state = {}, undoInterface,
                   historyLimit),
    type, undoInterface)

undoableReducer(state, type, reduced, undoInterface, historyLimit) ==
  HandleUndoRedo(
    HandleUndoable(Migrate(state, reduced), type,
                   state = Undef \/ DOMAIN state = {}, undoInterface, historyLimit),
    type, undoInterface)

(***************************************************************************)
(* The wrapped reducer on a heap of objects.  A heap is a sequence of      *)
(* cells; a reference names a cell.  An envelope is a cell whose history   *)
(* and future fields refer to array cells and whose present field refers   *)
(* to a snapshot cell (or is undefined).  Each operator returns the heap   *)
(* it leaves and the reference it returns.  Spreads, slice, concat and     *)
(* cloneDeep make new cells; delete, patch, push and reverse write the     *)
(* cell they are called on.                                                *)
(***************************************************************************)
Ref(n) == [t |-> "ref", n |-> n]
IsRef(v) == (~IsObj(v)) /\ v.t = "ref"
At(heap, ref) == heap[ref.n]
Made(heap, cell) == [heap |-> Append(heap, cell), ref |-> Ref(Len(heap) + 1)]
Write(heap, ref, cell) == [heap EXCEPT ![ref.n] = cell]
\* a field of a cell, followed through its reference
Field(heap, ref, key) ==
  IF IsRef(Get(At(heap, ref), key)) THEN At(heap, Get(At(heap, ref), key))
  ELSE Get(At(heap, ref), key)
\* the envelope a reference stands for, as a value
EnvOf(heap, ref) ==
  IF ref = Undef THEN Undef
  ELSE [k \in DOMAIN At(heap, ref) |-> Field(heap, ref, k)]

\* { ...state } (line 102)
SpreadCopy(heap, state) == Made(heap, At(heap, state))
\* delete clippedState.history, .future, .present (lines 103-105)
DeleteUndoKeys(m) == [m EXCEPT !.heap = Write(@, m.ref, Clip(At(@, m.ref)))]
\* lines 100-106: clippedState
ClippedState(heap, state) ==
  IF state = Undef THEN [heap |-> heap, ref |-> Undef]
  ELSE DeleteUndoKeys(SpreadCopy(heap, state))

\* state?.history ?? [] (lines 111-112)
ListOrNew(heap, state, key, new) ==
  IF state = Undef THEN new
  ELSE IF Get(At(heap, state), key) = Undef THEN new
  ELSE Get(At(heap, state), key)
\* lines 109-114: the new state object, after the wrapped reducer returned
\* reduced; the two empty arrays are made before it
MigrateOnHeap(heap, state, reduced) ==
  Made(heap \o <<Arr(<<>>), Arr(<<>>)>>,
       Spread(reduced,
         [history |-> ListOrNew(heap, state, "history", Ref(Len(heap) + 1)),
          future |-> ListOrNew(heap, state, "future", Ref(Len(heap) + 2)),
          present |-> IF state = Undef THEN Undef
                      ELSE Get(At(heap, state), "present")]))

\* { ...state, present, history, future } with new cells for the history
\* and future lists; present is a reference or undefined
Rebuilt(heap, state, present, history, future) ==
  Made(heap \o <<history, future>>,
       Spread(At(heap, state),
         [present |-> present,
          history |-> Ref(Len(heap) + 1),
          future |-> Ref(Len(heap) + 2)]))

\* saveMoment: createBackup, the spread of the new history list and the
\* final spread all make new objects
SavedOnHeap(m, state, saved) ==
  Rebuilt(m.heap, state, m.ref, Get(saved, "history"), Get(saved, "future"))
saveMomentOnHeap(heap, state, undoInterface, historyLimit) ==
  SavedOnHeap(Made(heap, createBackup(At(heap, state), undoInterface)), state,
              saveMoment(EnvOf(heap, state), undoInterface, historyLimit))

\* mutant of cloneDeepOnHeap: the object itself is handed back
cloneDeepSkipped(heap, ref) == [heap |-> heap, ref |-> ref]
\* cloneDeep(current)
cloneDeepOnHeap(heap, ref) == Made(heap, At(heap, ref))
\* patch(clone, record) patches clone in place and returns it
PatchInPlace(m, record) ==
  [m EXCEPT !.heap = Write(@, m.ref, patch(At(@, m.ref), record))]
\* restore(current, record), and the restored half of restoreWithRewind
restoreOnHeap(heap, current, record) ==
  PatchInPlace(cloneDeepOnHeap(heap, current), record)

\* rewinds = [], rewinds.push(result.diff) and rewinds.reverse(): one array
\* cell, written twice
Pushed(m, diffs) == [m EXCEPT !.heap = Write(@, m.ref, Arr(diffs))]
ReversedInPlace(m) ==
  [m EXCEPT !.heap = Write(@, m.ref, Arr(Reversed(At(@, m.ref).a)))]
RewindsOnHeap(heap, record) ==
  ReversedInPlace(Pushed(Made(heap, Arr(<<>>)), <<reverse(record)>>))

\* lines 236-257: loadBackup makes the loaded state, slice and the spreads
\* make the two lists, and the last spread makes the envelope returned
ListsOnHeap(heap, state, undoInterface, present, history, future) ==
  Made(heap \o <<history, future>>,
       Spread(loadBackup(At(heap, state), undoInterface, At(heap, present)),
         [history |-> Ref(Len(heap) + 1), future |-> Ref(Len(heap) + 2),
          present |-> present]))
RewoundOnHeap(m, state, undoInterface, present, distance) ==
  IF distance > 0
  THEN ListsOnHeap(m.heap, state, undoInterface, present,
         Arr(Slice(Field(m.heap, state, "history").a, 1,
                   Len(Field(m.heap, state, "history").a))),
         Arr(At(m.heap, m.ref).a \o Field(m.heap, state, "future").a))
  ELSE ListsOnHeap(m.heap, state, undoInterface, present,
         Arr(At(m.heap, m.ref).a \o Field(m.heap, state, "history").a),
         Arr(Slice(Field(m.heap, state, "future").a, 1,
                   Len(Field(m.heap, state, "future").a))))
RestoredOnHeap(m, state, undoInterface, record, distance) ==
  RewoundOnHeap(RewindsOnHeap(m.heap, record), state, undoInterface, m.ref, distance)

\* restoreMoment for the distances the reducer passes, 1 and -1: the rewind
\* loop makes one round
restoreMomentOnHeap(heap, state, undoInterface, distance) ==
  IF Get(At(heap, state), "present") = Undef
  THEN [heap |-> heap, ref |-> state]
  ELSE IF Nth(Field(heap, state, IF distance > 0 THEN "history" ELSE "future").a, 0)
            = Undef
  THEN [heap |-> heap, ref |-> state]
  ELSE RestoredOnHeap(
         restoreOnHeap(heap, Get(At(heap, state), "present"),
           Nth(Field(heap, state, IF distance > 0 THEN "history" ELSE "future").a, 0)),
         state, undoInterface,
         Nth(Field(heap, state, IF distance > 0 THEN "history" ELSE "future").a, 0),
         distance)

\* lines 146-156 of updatePresentMoment: lastHistory is restored on a clone
ResyncedOnHeap(m, state, present) ==
  Rebuilt(m.heap, state, present,
          Arr(<<createHistory(At(m.heap, present), At(m.heap, m.ref))>>
              \o Slice(Field(m.heap, state, "history").a, 1,
                       Len(Field(m.heap, state, "history").a))),
          Arr(<<>>))
PresentOnHeap(m, state) ==
  IF Len(Field(m.heap, state, "history").a) = 0
  THEN Rebuilt(m.heap, state, m.ref, Arr(<<>>), Arr(<<>>))
  ELSE ResyncedOnHeap(
         restoreOnHeap(m.heap, Get(At(m.heap, state), "present"),
                       Field(m.heap, state, "history").a[1]),
         state, m.ref)
updatePresentMomentOnHeap(heap, state, undoInterface) ==
  PresentOnHeap(Made(heap, createBackup(At(heap, state), undoInterface)), state)

\* lines 116-128 of the reducer
MomentOnHeap(m, type, isInit, undoInterface, historyLimit) ==
  IF HasUndoableMarker(type) \/ isInit
  THEN saveMomentOnHeap(m.heap, m.ref, undoInterface, historyLimit)
  ELSE m
UndoRedoOnHeap(m, type, undoInterface) ==
  IF type = undo \/ type = redo
  THEN restoreMomentOnHeap(m.heap, m.ref, undoInterface, IF type = undo THEN 1 ELSE -1)
  ELSE IF type = apply
  THEN updatePresentMomentOnHeap(m.heap, m.ref, undoInterface)
  ELSE m
\* the wrapped reducer called on the envelope that state refers to;
\* clipped is the heap and the reference ClippedState left, reduced what
\* the wrapped reducer returned for it
undoableReducerOnHeap(clipped, state, isInit, type, reduced, undoInterface, historyLimit) ==
  UndoRedoOnHeap(
    MomentOnHeap(MigrateOnHeap(clipped.heap, state, reduced), type, isInit,
                 undoInterface, historyLimit),
    type, undoInterface)

(***************************************************************************)
(* historyIterator (diff.ts).  A generator is its captured arguments, the  *)
(* local variable state, the position of the for loop in history, and      *)
(* whether it has returned; last is the value of its last yield.           *)
(***************************************************************************)
\* historyIterator(current, history)[Symbol.iterator](): a generator that
\* has not run yet
historyGenerator(current, history) ==
  [current |-> current, history |-> history, state |-> current, pos |-> 0,
   done |-> FALSE, last |-> Undef]

\* mutant of GeneratorNext: every delta is applied to current
GeneratorNextFromCurrent(gen) ==
  IF gen.current = Undef \/ gen.pos >= Len(gen.history)
  THEN [gen EXCEPT !.done = TRUE, !.last = Undef]
  ELSE [gen EXCEPT !.pos = @ + 1,
                   !.state = restore(gen.current, gen.history[gen.pos + 1]),
                   !.last = restore(gen.current, gen.history[gen.pos + 1])]

\* generator.next(): the generator runs to its next yield or to its end
GeneratorNext(gen) ==
  IF gen.current = Undef \/ gen.pos >= Len(gen.history)
  THEN [gen EXCEPT !.done = TRUE, !.last = Undef]
  ELSE [gen EXCEPT !.pos = @ + 1,
                   !.state = restore(gen.state, gen.history[gen.pos + 1]),
                   !.last = restore(gen.state, gen.history[gen.pos + 1])]

(***************************************************************************)
(* createBackupSlice (slice.ts).  A key or an action type is the sequence  *)
(* of its "/"-separated segments, as the action types of the reducer are.  *)
(* An object whose key order matters (reducers, slice.actions) is a        *)
(* sequence of entries in insertion order.  A case reducer is the amount   *)
(* it adds to state.num.                                                   *)
(***************************************************************************)
Entry(key, val) == [key |-> key, val |-> val]
HasKey(obj, key) == \E i \in 1..Len(obj) : obj[i].key = key
\* obj[key], for a key that obj has
Lookup(obj, key) == obj[CHOOSE i \in 1..Len(obj) : obj[i].key = key].val
\* obj[key] = val: an existing key keeps its place
Assign(obj, key, val) ==
  IF HasKey(obj, key)
  THEN [i \in 1..Len(obj) |-> IF obj[i].key = key THEN Entry(key, val) ELSE obj[i]]
  ELSE Append(obj, Entry(key, val))
\* delete obj[key]
Delete(obj, key) == SelectSeq(obj, LAMBDA e : e.key # key)

\* lines 53-57: reducers['undoable/' + key] = options.undoableReducers[key]
RECURSIVE MergeUndoable(_, _, _)
MergeUndoable(reducers, undoableReducers, i) ==
  IF i > Len(undoableReducers) THEN reducers
  ELSE MergeUndoable(
         Assign(reducers, <<"undoable">> \o undoableReducers[i].key,
                undoableReducers[i].val),
         undoableReducers, i + 1)

\* createSlice({name, reducers}): an action creator of type
\* name + "/" + key for every key, and a reducer that applies the case
\* reducer of the action's type
createSlice(name, reducers) ==
  [name |-> name,
   actions |-> [i \in 1..Len(reducers) |->
                  Entry(reducers[i].key, name \o reducers[i].key)],
   cases |-> [i \in 1..Len(reducers) |->
                Entry(name \o reducers[i].key, reducers[i].val)]]

\* key.indexOf('undoable/') === 0
StartsWithUndoable(key) == Len(key) >= 2 /\ key[1] = "undoable"

\* mutant of FixUp: the actions keep the keys createSlice gave them
FixUpSkipped(actions, actionKeys, i) == actions

\* lines 72-81: the undoable actions are moved to their plain names
RECURSIVE FixUp(_, _, _)
FixUp(actions, actionKeys, i) ==
  IF i > Len(actionKeys) THEN actions
  ELSE IF StartsWithUndoable(actionKeys[i])
  THEN FixUp(Delete(Assign(actions, Tail(actionKeys[i]), Lookup(actions, actionKeys[i])),
                    actionKeys[i]),
             actionKeys, i + 1)
  ELSE FixUp(actions, actionKeys, i + 1)

KeysOf(obj) == [i \in 1..Len(obj) |-> obj[i].key]
Fixed(slice, given) ==
  IF given THEN [slice EXCEPT !.actions = FixUp(@, KeysOf(@), 1)]
  ELSE slice

\* createBackupSlice(options); options.given tells whether the options
\* have an undoableReducers field
createBackupSlice(options) ==
  Fixed(createSlice(options.name,
                    IF options.given
                    THEN MergeUndoable(options.reducers, options.undoableReducers, 1)
                    ELSE options.reducers),
        options.given)

\* slice.reducer(state, action) for an action of the given type
sliceReducer(slice, num, type) ==
  IF HasKey(slice.cases, type) THEN num + Lookup(slice.cases, type) ELSE num

(***************************************************************************)
(* Storage (storage.ts) and the session middleware (session.ts).  A text   *)
(* held by a Storage is either the JSON encoding of a value or a text that *)
(* is not JSON; a Storage is its items (a function from keys to texts)     *)
(* and whether its calls throw (storage disabled, quota exceeded).         *)
(***************************************************************************)
null == [t |-> "null"]
JSONText(v) == [t |-> "json", v |-> v]
RawText(raw) == [t |-> "raw", raw |-> raw]

\* what JSON.stringify keeps of a value: keys holding undefined are left out,
\* NaN and undefined array elements become null
RECURSIVE Serializable(_)
Serializable(v) ==
  IF IsObj(v)
  THEN [k \in {x \in DOMAIN v : v[x] # Undef} |-> Serializable(v[k])]
  ELSE IF IsArr(v)
  THEN Arr([i \in 1..Len(v.a) |->
              IF v.a[i] = Undef THEN null ELSE Serializable(v.a[i])])
  ELSE IF v = NaN THEN null
  ELSE v

JSONstringify(v) == IF v = Undef THEN Undef ELSE JSONText(Serializable(v))
JSONparse(text) == IF text.t = "json" THEN text.v ELSE Thrown("SyntaxError")

\* !v
Falsy(v) ==
  IF IsObj(v) THEN FALSE
  ELSE \/ v.t \in {"undefined", "null", "NaN"}
       \/ v = Num(0)
       \/ v = Str(<<>>)
       \/ v = RawText("")

\* storage.getItem(key)
getItem(storage, key) ==
  IF storage.throws THEN Thrown("SecurityError")
  ELSE IF key \in DOMAIN storage.items THEN storage.items[key]
  ELSE null

\* String(value): setItem stores its argument converted to a string
ToText(value) == IF value = Undef THEN RawText("undefined") ELSE value

\* storage.setItem(key, value): the storage afterwards, or the error thrown
setItem(storage, key, value) ==
  IF storage.throws THEN Thrown("QuotaExceededError")
  ELSE [storage EXCEPT !.items = Put(@, key, ToText(value))]

\* the second statement of saveToStorage
StoreIt(storage, key, saveData) ==
  IF IsThrown(saveData) THEN saveData
  ELSE setItem(storage, key, JSONstringify(saveData))

\* saveToStorage(storage, key, state, backupInterface): the storage
\* afterwards, or the error thrown
saveToStorage(storage, key, state, backupInterface) ==
  StoreIt(storage, key, createBackup(state, backupInterface))

\* lines 49-51 of loadFromStorage
Process(loadedData, state, backupInterface) ==
  IF IsThrown(loadedData) THEN loadedData
  ELSE IF Falsy(loadedData) THEN state
  ELSE loadBackup(state, backupInterface, loadedData)

\* the try block of loadFromStorage, followed by the final return
TryLoad(storedStateJSON, state, backupInterface) ==
  IF IsThrown(storedStateJSON) THEN storedStateJSON
  ELSE IF Falsy(storedStateJSON) THEN state
  ELSE Process(JSONparse(storedStateJSON), state, backupInterface)

\* the catch block of loadFromStorage: the error goes to the console and
\* the function goes on to return the original state
Caught(result, state) == IF IsThrown(result) THEN state ELSE result

\* mutant of loadFromStorage: no try and catch around the load
loadFromStorageUncaught(state, storage, key, backupInterface) ==
  TryLoad(getItem(storage, key), state, backupInterface)

loadFromStorage(state, storage, key, backupInterface) ==
  Caught(TryLoad(getItem(storage, key), state, backupInterface), state)

loadInitialStateFromSession(initialState, backupInterface, sessionKey, sessionStorage) ==
  loadFromStorage(initialState, sessionStorage, sessionKey, backupInterface)

\* the middleware after next(action): saved is what saveToStorage left, an
\* error thrown by it leaves the middleware instead of result
ReturnResult(saved, sessionStorage, result) ==
  IF IsThrown(saved) THEN [returned |-> saved, storage |-> sessionStorage]
  ELSE [returned |-> result, storage |-> saved]

\* the middleware returned by createSessionMiddleware(backupInterface,
\* sessionKey), after next(action) returned result and left the store in
\* storeState
createSessionMiddleware(backupInterface, sessionKey, sessionStorage, result, storeState) ==
  ReturnResult(saveToStorage(sessionStorage, sessionKey, storeState, backupInterface),
               sessionStorage, result)

(***************************************************************************)
(* State.  lb*: one loadBackup call and the same call on the tree with its *)
(* keys declared in the reference order.                                   *)
(***************************************************************************)
VARIABLES lbTree, lbBase, lbStore, lbPc, lbCall, lbResult, lbRefCall, lbRefResult
(***************************************************************************)
(* rt*: a state, its backup under a nested codec tree, and the state       *)
(* loaded back from that backup over a base state.                         *)
(***************************************************************************)
VARIABLES rtTree, rtState, rtBase, rtPc, rtBackup, rtRestored
(***************************************************************************)
(* The undoable reducer: state is the envelope held by the store           *)
(* (undefined before the first action), historyLimit the limit given to    *)
(* createUndoableReducer, report the console output of the last call.      *)
(* lastType, lastHadFuture and run record the actions dispatched so far,   *)
(* lastReduced what the wrapped reducer returned in the last call under    *)
(* the keys of the backup interface, and preloadedState the state handed   *)
(* to the first call.                                                      *)
(***************************************************************************)
VARIABLES state, historyLimit, report, lastType, lastHadFuture, run,
          lastReduced, preloadedState
(***************************************************************************)
(* ss*: a store behind the session middleware.  ssStorage is the items of  *)
(* sessionStorage, ssStore the store's state (the initial state before it  *)
(* is loaded from the session), ssLoad the loadInitialStateFromSession     *)
(* call made and ssDispatch the last dispatch through the middleware.      *)
(***************************************************************************)
VARIABLES ssStorage, ssStore, ssPc, ssLoad, ssDispatch, ssCount
(***************************************************************************)
(* sl*: the options given to createBackupSlice, the slice it returned and *)
(* the use made of one of its actions.                                    *)
(* up*: one dependencyLoader.update(upKey, upPatch) call made by the load *)
(* of the key "a" during loadBackup({}, upTree, upStore); upCall is the   *)
(* bookkeeping of loadBackup when update is called and upResult the       *)
(* bookkeeping when it returns.                                           *)
(* it*: a history iterated with historyIterator.  itRecords are the states *)
(* recorded oldest first, itHistory the deltas made from them newest      *)
(* first, itCurrent the state handed to historyIterator, itGen the         *)
(* generator of the running iteration, itYielded what it has yielded.     *)
(* hp*: the wrapped reducer on a heap.  hpHeap is the heap and hpState the *)
(* reference the store holds (undefined before the first action);          *)
(* hpBefore, hpIncoming, hpType and hpReduced record the last call (the    *)
(* heap and the reference it was given, the action type, what the wrapped  *)
(* reducer returned), hpAfter the cells of hpBefore as the call left them  *)
(* and hpReturned the reference it returned.                               *)
(***************************************************************************)
VARIABLES itRecords, itHistory, itCurrent, itGen, itYielded, itRuns
VARIABLES upTree, upStore, upKey, upPatch, upCall, upResult
VARIABLES slOptions, slSlice, slUsed
VARIABLES dfNext, dfPrev, dfHeap, dfPc, dfRecord, dfRestored, dfRewind, dfReplayed
VARIABLES hpHeap, hpState, hpLimit, hpPc, hpBefore, hpIncoming, hpType,
          hpReduced, hpAfter, hpReturned

lbVars == <<lbTree, lbBase, lbStore, lbPc, lbCall, lbResult, lbRefCall, lbRefResult>>
rtVars == <<rtTree, rtState, rtBase, rtPc, rtBackup, rtRestored>>
udVars ==
  <<state, historyLimit, report, lastType, lastHadFuture, run, lastReduced,
    preloadedState>>
ssVars == <<ssStorage, ssStore, ssPc, ssLoad, ssDispatch, ssCount>>
hpVars ==
  <<hpHeap, hpState, hpLimit, hpPc, hpBefore, hpIncoming, hpType, hpReduced,
    hpAfter, hpReturned>>
itVars == <<itRecords, itHistory, itCurrent, itGen, itYielded, itRuns>>
upVars == <<upTree, upStore, upKey, upPatch, upCall, upResult>>
slVars == <<slOptions, slSlice, slUsed>>
dfVars == <<dfNext, dfPrev, dfHeap, dfPc, dfRecord, dfRestored, dfRewind, dfReplayed>>
vars == <<lbVars, rtVars, udVars, ssVars, hpVars, itVars, upVars, slVars, dfVars>>

Pending == [t |-> "pending"]

\* the keys of the loaded state; "other" is a key of the base state that the
\* codec tree never declares
TreeKeys == {"a", "b", "shared"}
RefOrder == <<"a", "b", "shared">>
Orders ==
  {o \in [1..3 -> TreeKeys] : \A i, j \in 1..3 : i # j => o[i] # o[j]}

\* the codecs a key may be given: the copy codec, the shared-counter and the
\* rebuild codecs, and codecs whose load only reads or only sets another key
CodecMenu ==
  {CopySliceBackupInterface}
    \cup {IncrCodec(k) : k \in TreeKeys}
    \cup {NeedsCodec(k) : k \in TreeKeys \cup {"other"}}
    \cup {SetCodec(k, 5) : k \in {"shared", "other"}}
    \cup {RebuildCodec("shared", "a", 0), RebuildCodec("shared", "b", 1)}

SharedStored ==
  {Num(n) : n \in 0..MaxNum} \cup {[a |-> Num(3), b |-> Num(6)]}

\* the variables of a specification that is not running
IdleLoad ==
  /\ lbTree = Tree(<<>>, EmptyObj)
  /\ lbBase = EmptyObj
  /\ lbStore = EmptyObj
  /\ lbPc = "idle"
  /\ lbCall = NewCall
  /\ lbResult = Pending
  /\ lbRefCall = NewCall
  /\ lbRefResult = Pending
IdleRoundTrip ==
  /\ rtTree = Tree(<<>>, EmptyObj)
  /\ rtState = EmptyObj
  /\ rtBase = EmptyObj
  /\ rtPc = "idle"
  /\ rtBackup = Pending
  /\ rtRestored = Pending

\* the record of a run that the properties no longer follow
Untracked(shape) ==
  [shape |-> shape, moments |-> <<>>, saved |-> Undef, nUndo |-> 0, nRedo |-> 0,
   idx |-> 0, findsOk |-> FALSE]
IdleUndo ==
  /\ state = Undef
  /\ historyLimit = Undef
  /\ report = Silent
  /\ lastType = <<>>
  /\ lastHadFuture = FALSE
  /\ run = Untracked("idle")
  /\ lastReduced = Undef
  /\ preloadedState = Undef

NoCall == [t |-> "none"]
IdleSession ==
  /\ ssStorage = EmptyObj
  /\ ssStore = Undef
  /\ ssPc = "idle"
  /\ ssLoad = NoCall
  /\ ssDispatch = NoCall
  /\ ssCount = 0
IdleHeap ==
  /\ hpHeap = <<>>
  /\ hpState = Undef
  /\ hpLimit = Undef
  /\ hpPc = "idle"
  /\ hpBefore = <<>>
  /\ hpIncoming = Undef
  /\ hpType = <<>>
  /\ hpReduced = Undef
  /\ hpAfter = <<>>
  /\ hpReturned = Undef
IdleIterate ==
  /\ itRecords = <<>>
  /\ itHistory = <<>>
  /\ itCurrent = Undef
  /\ itGen = NoCall
  /\ itYielded = <<>>
  /\ itRuns = 0
IdleUpdate ==
  /\ upTree = Tree(<<>>, EmptyObj)
  /\ upStore = EmptyObj
  /\ upKey = ""
  /\ upPatch = Undef
  /\ upCall = NewCall
  /\ upResult = Pending
IdleSlice ==
  /\ slOptions = Undef
  /\ slSlice = Pending
  /\ slUsed = NoCall
IdleDiff ==
  /\ dfNext = Undef
  /\ dfPrev = Undef
  /\ dfHeap = <<>>
  /\ dfPc = "idle"
  /\ dfRecord = Pending
  /\ dfRestored = Pending
  /\ dfRewind = Pending
  /\ dfReplayed = Pending

InitLoad ==
  /\ IdleRoundTrip
  /\ IdleUndo
  /\ IdleSession
  /\ IdleHeap
  /\ IdleIterate
  /\ IdleUpdate
  /\ IdleSlice
  /\ IdleDiff
  /\ \E kids \in [TreeKeys -> CodecMenu], o \in Orders : lbTree = Tree(o, kids)
  /\ lbBase \in {EmptyObj, [a |-> Num(8), other |-> Num(7)]}
  /\ \E sh \in SharedStored, vb \in {Str(<<"6">>), Undef} :
       lbStore = [a |-> Str(<<"3">>), b |-> vb, shared |-> sh]
  /\ lbPc = "ready"
  /\ lbCall = NewCall
  /\ lbResult = Pending
  /\ lbRefCall = NewCall
  /\ lbRefResult = Pending

\* loadBackup(lbBase, lbTree, lbStore)
LoadBackupCall ==
  /\ lbPc = "ready"
  /\ lbCall' = LoadLoop(lbBase, lbTree, lbStore, 1, NewCall)
  /\ lbResult' = loadBackup(lbBase, lbTree, lbStore)
  /\ lbPc' = "loaded"
  /\ UNCHANGED <<lbTree, lbBase, lbStore, lbRefCall, lbRefResult>>
  /\ UNCHANGED <<rtVars, udVars, ssVars, hpVars, itVars, upVars, slVars, dfVars>>

\* the same call on the same codecs declared in the reference order
LoadBackupReordered ==
  /\ lbPc = "loaded"
  /\ lbRefCall' = LoadLoop(lbBase, Tree(RefOrder, lbTree.kids), lbStore, 1, NewCall)
  /\ lbRefResult' = loadBackup(lbBase, Tree(RefOrder, lbTree.kids), lbStore)
  /\ lbPc' = "done"
  /\ UNCHANGED <<lbTree, lbBase, lbStore, lbCall, lbResult>>
  /\ UNCHANGED <<rtVars, udVars, ssVars, hpVars, itVars, upVars, slVars, dfVars>>

NextLoad == LoadBackupCall \/ LoadBackupReordered

SpecLoad == InitLoad /\ [][NextLoad]_vars

(***************************************************************************)
(* loadBackup on a codec tree with a nested tree under the key "shared".   *)
(* The nested tree declares the keys "a" and "b", as the tree around it    *)
(* does, and its codecs call needs and update on those keys and on         *)
(* "shared", which only the tree around it declares.                       *)
(***************************************************************************)
OuterMenu == {CopySliceBackupInterface, NeedsCodec("shared"), SetCodec("shared", 5)}
InnerMenu ==
  {CopySliceBackupInterface, NeedsCodec("a"), NeedsCodec("b"), NeedsCodec("shared"),
   IncrCodec("a"), SetCodec("shared", 5)}
InnerOrders == {<<"a", "b">>, <<"b", "a">>}
NestedStore ==
  [a |-> Num(3), b |-> Num(6), shared |-> [a |-> Num(4), b |-> Num(5)]]

InitNested ==
  /\ IdleRoundTrip
  /\ IdleUndo
  /\ IdleSession
  /\ IdleHeap
  /\ IdleIterate
  /\ IdleUpdate
  /\ IdleSlice
  /\ IdleDiff
  /\ \E o \in Orders, io \in InnerOrders, ca \in OuterMenu, cb \in OuterMenu,
        kids \in [{"a", "b"} -> InnerMenu] :
       lbTree = Tree(o, [a |-> ca, b |-> cb, shared |-> Tree(io, kids)])
  /\ lbBase \in {EmptyObj, [shared |-> [a |-> Num(8), other |-> Num(7)]]}
  /\ lbStore = NestedStore
  /\ lbPc = "ready"
  /\ lbCall = NewCall
  /\ lbResult = Pending
  /\ lbRefCall = NewCall
  /\ lbRefResult = Pending

SpecNested == InitNested /\ [][NextLoad]_vars

(***************************************************************************)
(* Backup and restore of nested states (SpecRoundTrip).  A shape is a      *)
(* codec-tree node n together with a state value v it governs.             *)
(***************************************************************************)
\* nesting depth of the generated codec trees
MaxDepth == 3

LeafShapes ==
  {[n |-> CopySliceBackupInterface, v |-> v] : v \in {Num(1), Undef}}
    \cup {[n |-> stringBackup, v |-> v] : v \in {Str(<<>>), Str(<<"q", "r">>)}}
    \cup {[n |-> sliceBackupInterface, v |-> [a |-> a, b |-> Str(<<"b">>)]] :
            a \in {Str(<<"a">>), Str(<<"a", ",">>)}}

RECURSIVE Shapes(_)
Shapes(d) ==
  LET below == IF d = 1 THEN LeafShapes ELSE LeafShapes \cup Shapes(d - 1)
  IN {[n |-> Tree(o, [x |-> px.n, y |-> py.n]), v |-> [x |-> px.v, y |-> py.v]] :
        px \in LeafShapes, py \in below, o \in {<<"x", "y">>, <<"y", "x">>}}

\* the same shape with, at every level, a key 'z' that the codec tree declares
\* without a codec ({ z: undefined, ... }) and a state holding values under
\* 'z' and under 'w', a key the tree does not declare
RECURSIVE WithHoles(_)
WithHoles(sh) ==
  IF IsCodec(sh.n) THEN sh
  ELSE [n |-> Tree(<<"z">> \o sh.n.order,
                   [k \in DOMAIN sh.n.kids |->
                      WithHoles([n |-> sh.n.kids[k], v |-> sh.v[k]]).n]),
        v |-> [k \in (DOMAIN sh.v) \cup {"w", "z"} |->
                 IF k \in {"w", "z"} THEN Num(9)
                 ELSE WithHoles([n |-> sh.n.kids[k], v |-> sh.v[k]]).v]]

\* base states: empty, stale scalars under every key, stale values at every level
StaleBases ==
  {EmptyObj,
   [x |-> Num(9), y |-> Num(9), z |-> Num(9)],
   [x |-> Num(9), z |-> Num(9),
    y |-> [x |-> Num(9), z |-> Num(9), y |-> [x |-> Num(9), y |-> Num(9), z |-> Num(9)]]]}

InitRoundTrip ==
  /\ IdleLoad
  /\ IdleUndo
  /\ IdleSession
  /\ IdleHeap
  /\ IdleIterate
  /\ IdleUpdate
  /\ IdleSlice
  /\ IdleDiff
  /\ \E sh \in Shapes(MaxDepth) \cup {WithHoles(h) : h \in Shapes(MaxDepth - 1)} :
       rtTree = sh.n /\ rtState = sh.v
  /\ rtBase \in StaleBases
  /\ rtPc = "ready"
  /\ rtBackup = Pending
  /\ rtRestored = Pending

\* createBackup(rtState, rtTree)
CreateBackupCall ==
  /\ rtPc = "ready"
  /\ rtBackup' = createBackup(rtState, rtTree)
  /\ rtPc' = IF IsThrown(rtBackup') THEN "threw" ELSE "saved"
  /\ UNCHANGED <<rtTree, rtState, rtBase, rtRestored>>
  /\ UNCHANGED <<lbVars, udVars, ssVars, hpVars, itVars, upVars, slVars, dfVars>>

\* loadBackup(rtBase, rtTree, rtBackup)
LoadBackupOfBackup ==
  /\ rtPc = "saved"
  /\ rtRestored' = loadBackup(rtBase, rtTree, rtBackup)
  /\ rtPc' = "restored"
  /\ UNCHANGED <<rtTree, rtState, rtBase, rtBackup>>
  /\ UNCHANGED <<lbVars, udVars, ssVars, hpVars, itVars, upVars, slVars, dfVars>>

NextRoundTrip == CreateBackupCall \/ LoadBackupOfBackup

SpecRoundTrip == InitRoundTrip /\ [][NextRoundTrip]_vars

(***************************************************************************)
(* The undoable reducer driven by a store (Spec).  The wrapped reducer and *)
(* the actions' payloads are the environment: for every action the wrapped *)
(* reducer may return any state of S, the one it was given included.       *)
(***************************************************************************)
\* undoInterface: { slice: sliceBackupInterface }
stateBackupInterface == Tree(<<"slice">>, [slice |-> sliceBackupInterface])

\* type State = { slice: { a: string, b: string } }, with a key "other" that
\* the backup interface does not cover
AStrings == {[i \in 1..n |-> "a"] : n \in 1..MaxStr}
S ==
  {[slice |-> [a |-> Str(as), b |-> Str(<<"b">>)], other |-> Num(n)] :
     as \in AStrings, n \in {0, 1}}
\* the wrapped reducer: slice is whatever the action makes of it, and 'other'
\* tells whether the number of actions reduced so far is odd
reducer(clippedState, type) ==
  {s \in S : s["other"] = IF Get(clippedState, "other") = Num(0) THEN Num(1)
                          ELSE Num(0)}
\* const initialState = { slice: { a: "a", b: "b" } }, here also the state a
\* store is created with (README: undoableReducer(state, action))
initialState == [slice |-> [a |-> Str(<<"a">>), b |-> Str(<<"b">>)], other |-> Num(1)]

IsUninit(st) == st = Undef \/ DOMAIN st = {}
\* a state returned by the reducer: it holds history, future and present
IsEnvelope(st) == IsObj(st) /\ UndoKeys \subseteq DOMAIN st
\* the part of the envelope that the backup interface covers
Covered(st) == [k \in DOMAIN stateBackupInterface.kids |-> Get(st, k)]

\* the kind of an action, as createUndoableReducer tells them apart
Kind(type) ==
  IF type = undo THEN "undo"
  ELSE IF type = redo THEN "redo"
  ELSE IF type = apply THEN "apply"
  ELSE IF HasUndoableMarker(type) THEN "moment"
  ELSE "plain"

\* the run so far: INIT and N moment-recording actions (shape "moments"),
\* then undos only ("undos"), then redos only ("redos"), then any mix of the
\* two ("mixed"); moments are the snapshots M_0..M_N, saved the envelope after
\* the N-th moment, idx = N - #undos + #redos, and findsOk tells that every
\* undo found history non-empty and every redo found future non-empty
Track(r, type, before, after) ==
  LET kind == Kind(type)
      n == Len(r.moments) - 1
      off == Untracked("off")
      undoFinds == r.findsOk /\ Len(HistoryOf(before)) > 0
      redoFinds == r.findsOk /\ Len(FutureOf(before)) > 0
  IN CASE r.shape = "start" ->
            IF IsUninit(before) /\ kind \in {"plain", "moment"}
            THEN [shape |-> "moments", moments |-> <<Get(after, "present")>>,
                  saved |-> after, nUndo |-> 0, nRedo |-> 0, idx |-> 0,
                  findsOk |-> TRUE]
            ELSE off
       [] r.shape = "moments" ->
            IF kind = "moment" /\ n < MaxHist
            THEN [r EXCEPT !.moments = Append(@, Get(after, "present")),
                           !.saved = after, !.idx = @ + 1]
            ELSE IF kind = "undo" /\ n >= 1
            THEN [r EXCEPT !.shape = "undos", !.nUndo = 1, !.idx = @ - 1,
                           !.findsOk = undoFinds]
            ELSE off
       [] r.shape = "undos" ->
            IF kind = "undo" /\ r.nUndo < n
            THEN [r EXCEPT !.nUndo = @ + 1, !.idx = @ - 1, !.findsOk = undoFinds]
            ELSE IF kind = "redo"
            THEN [r EXCEPT !.shape = "redos", !.nRedo = 1, !.idx = @ + 1,
                           !.findsOk = redoFinds]
            ELSE off
       [] r.shape = "redos" ->
            IF kind = "redo" /\ r.nRedo < r.nUndo
            THEN [r EXCEPT !.nRedo = @ + 1, !.idx = @ + 1, !.findsOk = redoFinds]
            ELSE IF kind = "undo" /\ r.idx >= 1
            THEN [r EXCEPT !.shape = "mixed", !.nUndo = 0, !.nRedo = 0,
                           !.idx = @ - 1, !.findsOk = undoFinds]
            ELSE off
       [] r.shape = "mixed" ->
            IF kind = "undo" /\ r.idx >= 1
            THEN [r EXCEPT !.idx = @ - 1, !.findsOk = undoFinds]
            ELSE IF kind = "redo" /\ r.idx < n
            THEN [r EXCEPT !.idx = @ + 1, !.findsOk = redoFinds]
            ELSE off
       [] OTHER -> off

Init ==
  /\ IdleLoad
  /\ IdleRoundTrip
  /\ IdleSession
  /\ IdleHeap
  /\ IdleIterate
  /\ IdleUpdate
  /\ IdleSlice
  /\ IdleDiff
  /\ state \in {Undef, EmptyObj, initialState}
  /\ preloadedState = state
  /\ lastReduced = Undef
  /\ historyLimit \in {Undef} \cup {Num(l) : l \in 0..MaxLimit}
  /\ report = Silent
  /\ lastType = <<>>
  /\ lastHadFuture = FALSE
  /\ run = Untracked("start")

\* the store keeps the state returned; the console shows the report
Store(returned, type, reduced) ==
  /\ lastReduced' = Covered(reduced)
  /\ state' = returned.state
  /\ report' = returned.report
  /\ run' = Track(run, type, state, returned.state)

\* store.dispatch({ type }): state = undoReducer(state, action)
Dispatch(type) ==
  /\ run.shape # "idle"
  /\ \E reduced \in reducer(IF state = Undef THEN Undef ELSE Clip(state), type) :
       Store(undoableReducer(state, type, reduced, stateBackupInterface,
                             historyLimit), type, reduced)
  /\ lastType' = type
  /\ lastHadFuture' = (IsEnvelope(state) /\ FutureOf(state) # <<>>)
  /\ UNCHANGED <<historyLimit, preloadedState, lbVars, rtVars, ssVars, hpVars, itVars, upVars, slVars, dfVars>>

\* an action of any other type
DispatchAction == \E type \in {<<"action">>, <<"undoable", "action">>} : Dispatch(type)
\* an action made by createUndoableAction(feature, type)
DispatchUndoableAction ==
  /\ IF IsEnvelope(state) THEN Len(HistoryOf(state)) < MaxHist ELSE TRUE
  /\ Dispatch(getUndoableActionType("feature", "type"))
DispatchUndo == Dispatch(undo)
DispatchRedo == Dispatch(redo)
DispatchApply == Dispatch(apply)

Next ==
  \/ DispatchAction
  \/ DispatchUndoableAction
  \/ DispatchUndo
  \/ DispatchRedo
  \/ DispatchApply

Spec == Init /\ [][Next]_vars

(***************************************************************************)
(* The session: the initial state is loaded from sessionStorage, then      *)
(* actions are dispatched through the session middleware.                  *)
(***************************************************************************)
sessionKey == "session"
\* what sessionStorage may hold under the session key when the page loads:
\* nothing, an empty text, texts that are not JSON, JSON of falsy values,
\* the text saveToStorage left for a state, and JSON whose slice is not what
\* the slice's codec saved
StoredTexts ==
  {RawText(""), RawText("undefined"), RawText("{"), JSONText(null), JSONText(Num(0)),
   JSONText([slice |-> Num(1)])}
    \cup {JSONstringify(createBackup(st, stateBackupInterface)) : st \in S}
sessionStorage(items, throws) == [items |-> items, throws |-> throws]
\* the value of an action object, as next(action) returns it
ActionValue(type) == [t |-> "action", type |-> type]

InitSession ==
  /\ IdleLoad
  /\ IdleRoundTrip
  /\ IdleUndo
  /\ IdleHeap
  /\ IdleIterate
  /\ IdleUpdate
  /\ IdleSlice
  /\ IdleDiff
  /\ ssStorage \in {EmptyObj} \cup {[k \in {sessionKey} |-> text] : text \in StoredTexts}
  /\ ssStore \in {EmptyObj, initialState}
  /\ ssPc = "boot"
  /\ ssLoad = NoCall
  /\ ssDispatch = NoCall
  /\ ssCount = 0

Booted(returned, throws) ==
  /\ ssLoad' = [given |-> ssStore, storage |-> sessionStorage(ssStorage, throws),
                returned |-> returned]
  /\ ssStore' = returned
  /\ ssPc' = IF IsThrown(returned) THEN "crashed" ELSE "running"

\* the store's preloaded state: loadInitialStateFromSession(initialState,
\* backupInterface, sessionKey)
LoadInitialStateFromSession ==
  /\ ssPc = "boot"
  /\ \E throws \in BOOLEAN :
       Booted(loadInitialStateFromSession(ssStore, stateBackupInterface, sessionKey,
                                          sessionStorage(ssStorage, throws)),
              throws)
  /\ UNCHANGED <<ssStorage, ssDispatch, ssCount, lbVars, rtVars, udVars, hpVars, itVars, upVars, slVars, dfVars>>

Dispatched(outcome, type, reduced, throws) ==
  /\ ssDispatch' = [action |-> type, throws |-> throws, result |-> ActionValue(type),
                    reduced |-> reduced, returned |-> outcome.returned]
  /\ ssStorage' = outcome.storage.items
  /\ ssStore' = reduced

\* store.dispatch(action) through the middleware: next(action) runs the
\* store's reducer, which handles the action or ignores it, and returns the
\* action
SessionDispatch ==
  /\ ssPc = "running"
  /\ ssCount < MaxDispatch
  /\ \E type \in {<<"action">>, getUndoableActionType("feature", "type")},
        throws \in BOOLEAN :
     \E reduced \in reducer(ssStore, type) \cup {ssStore} :
       Dispatched(createSessionMiddleware(stateBackupInterface, sessionKey,
                                          sessionStorage(ssStorage, throws),
                                          ActionValue(type), reduced),
                  type, reduced, throws)
  /\ ssCount' = ssCount + 1
  /\ UNCHANGED <<ssPc, ssLoad, lbVars, rtVars, udVars, hpVars, itVars, upVars, slVars, dfVars>>

NextSession ==
  \/ LoadInitialStateFromSession
  \/ SessionDispatch
SpecSession == InitSession /\ [][NextSession]_vars

(***************************************************************************)
(* The wrapped reducer on the heap: every action class is dispatched to    *)
(* the envelope the store holds.  After a call the cells that the new      *)
(* envelope does not reach are collected.                                  *)
(***************************************************************************)
InitHeap ==
  /\ IdleLoad
  /\ IdleRoundTrip
  /\ IdleUndo
  /\ IdleSession
  /\ IdleIterate
  /\ IdleUpdate
  /\ IdleSlice
  /\ IdleDiff
  /\ \E preloaded \in {Undef, EmptyObj, initialState} :
       /\ hpHeap = IF preloaded = Undef THEN <<>> ELSE <<preloaded>>
       /\ hpState = IF preloaded = Undef THEN Undef ELSE Ref(1)
  /\ hpLimit \in {Undef} \cup {Num(l) : l \in 0..MaxLimit}
  /\ hpPc = "run"
  /\ hpBefore = <<>>
  /\ hpIncoming = Undef
  /\ hpType = <<>>
  /\ hpReduced = Undef
  /\ hpAfter = <<>>
  /\ hpReturned = Undef

\* the cells an envelope reaches, renumbered from 1
Collected(heap, ref) ==
  <<Spread(At(heap, ref),
      [history |-> Ref(2), future |-> Ref(3),
       present |-> IF Get(At(heap, ref), "present") = Undef THEN Undef ELSE Ref(4)]),
    Field(heap, ref, "history"), Field(heap, ref, "future")>>
    \o (IF Get(At(heap, ref), "present") = Undef THEN <<>>
        ELSE <<Field(heap, ref, "present")>>)

HeapStore(m, type, reduced) ==
  /\ hpBefore' = hpHeap
  /\ hpIncoming' = hpState
  /\ hpType' = type
  /\ hpReduced' = reduced
  /\ hpAfter' = SubSeq(m.heap, 1, Len(hpHeap))
  /\ hpReturned' = m.ref
  /\ hpHeap' = Collected(m.heap, m.ref)
  /\ hpState' = Ref(1)

HeapReduce(clipped, type) ==
  \E reduced \in reducer(IF hpState = Undef THEN Undef
                         ELSE At(clipped.heap, clipped.ref), type) :
    HeapStore(undoableReducerOnHeap(clipped, hpState,
                IF hpState = Undef THEN TRUE ELSE DOMAIN At(hpHeap, hpState) = {},
                type, reduced, stateBackupInterface, hpLimit),
              type, reduced)

HeapDispatch(type) ==
  /\ hpPc = "run"
  /\ HeapReduce(ClippedState(hpHeap, hpState), type)
  /\ UNCHANGED <<hpLimit, hpPc, lbVars, rtVars, udVars, ssVars, itVars, upVars, slVars, dfVars>>

HeapAction == HeapDispatch(<<"action">>)
HeapUndoableAction ==
  /\ IF hpState = Undef THEN TRUE
     ELSE IF IsEnvelope(At(hpHeap, hpState))
     THEN Len(Field(hpHeap, hpState, "history").a) < MaxHist
     ELSE TRUE
  /\ HeapDispatch(getUndoableActionType("feature", "type"))
HeapUndo == HeapDispatch(undo)
HeapRedo == HeapDispatch(redo)
HeapApply == HeapDispatch(apply)

NextHeap ==
  \/ HeapAction
  \/ HeapUndoableAction
  \/ HeapUndo
  \/ HeapRedo
  \/ HeapApply
SpecHeap == InitHeap /\ [][NextHeap]_vars

(***************************************************************************)
(* Iterating a history: states are recorded and a delta is put in front of *)
(* the history for each, as the undo moments do; then the history is       *)
(* iterated, any number of times, each iteration as far as the consumer    *)
(* pulls it.                                                               *)
(***************************************************************************)
\* the snapshots recorded: a number and an optional string
Snapshots ==
  {[a |-> Num(n)] : n \in 0..MaxNum}
    \cup {[a |-> Num(n), b |-> Str(<<"b">>)] : n \in 0..MaxNum}
\* history.splice(0, 0, createHistory(next, state)) for every record after
\* the first
RECURSIVE HistoryFor(_)
HistoryFor(records) ==
  IF Len(records) <= 1 THEN <<>>
  ELSE <<createHistory(records[Len(records)], records[Len(records) - 1])>>
         \o HistoryFor(SubSeq(records, 1, Len(records) - 1))

InitIterate ==
  /\ IdleLoad
  /\ IdleRoundTrip
  /\ IdleUndo
  /\ IdleSession
  /\ IdleHeap
  /\ IdleUpdate
  /\ IdleSlice
  /\ IdleDiff
  /\ \E n \in 1..MaxRecords : itRecords \in [1..n -> Snapshots]
  /\ itHistory = HistoryFor(itRecords)
  /\ itCurrent \in {itRecords[Len(itRecords)], Undef}
  /\ itGen = NoCall
  /\ itYielded = <<>>
  /\ itRuns = 0

\* for (const restored of historyIterator(current, history)): a new
\* generator, whatever became of the one before
GetIterator ==
  /\ itRuns < MaxRuns
  /\ itGen' = historyGenerator(itCurrent, itHistory)
  /\ itYielded' = <<>>
  /\ itRuns' = itRuns + 1
  /\ UNCHANGED <<itRecords, itHistory, itCurrent, lbVars, rtVars, udVars, ssVars, hpVars,
                 upVars, slVars, dfVars>>

Pulled(gen) ==
  /\ itGen' = gen
  /\ itYielded' = IF gen.done THEN itYielded ELSE Append(itYielded, gen.last)

\* the loop asks the generator for its next value
IteratorNext ==
  /\ itGen # NoCall
  /\ ~itGen.done
  /\ Pulled(GeneratorNext(itGen))
  /\ UNCHANGED <<itRecords, itHistory, itCurrent, itRuns, lbVars, rtVars, udVars,
                 ssVars, hpVars, upVars, slVars, dfVars>>

NextIterate ==
  \/ GetIterator
  \/ IteratorNext
SpecIterate == InitIterate /\ [][NextIterate]_vars

(***************************************************************************)
(* One update call.  The load of the key "a" calls                         *)
(* dependencyLoader.update(upKey, upPatch), either as the first key of the *)
(* loop or after the other keys were loaded.                               *)
(***************************************************************************)
UpdateKeys == <<"shared", "b", "a">>
\* the values a slice may hold in the store
StoredSlices ==
  {Num(n) : n \in 0..MaxNum}
    \cup {Str(<<"s">>), Bool(FALSE), Arr(<<Num(0)>>), [a |-> Num(3), b |-> Num(6)]}
\* the patches a load may pass
Patches ==
  {Num(5), Str(<<"p">>), Arr(<<>>), Bool(TRUE), [a |-> Num(0)], [c |-> Num(1)]}
\* the bookkeeping when the load of "a" runs: LoadKey has added "a" to
\* loadedKeys and to loadQueue
InLoadOfA(c) ==
  [c EXCEPT !.loadedKeys = @ \cup {"a"}, !.loadQueue = Append(@, "a"),
            !.entered = Append(@, "a"), !.ran = Append(@, "a")]

InitUpdate ==
  /\ IdleLoad
  /\ IdleRoundTrip
  /\ IdleUndo
  /\ IdleSession
  /\ IdleHeap
  /\ IdleIterate
  /\ IdleSlice
  /\ IdleDiff
  /\ upTree = Tree(UpdateKeys, [k \in {"shared", "b", "a"} |-> CopySliceBackupInterface])
  /\ \E sh \in StoredSlices, vb \in StoredSlices :
       upStore = [shared |-> sh, b |-> vb, a |-> Str(<<"3">>)]
  /\ upKey \in {"shared", "b"}
  /\ upPatch \in Patches
  /\ \E first \in BOOLEAN :
       upCall = IF first THEN InLoadOfA(NewCall)
                ELSE InLoadOfA(LoadLoop(EmptyObj, Tree(<<"shared", "b">>, upTree.kids),
                                        upStore, 1, NewCall))
  /\ upResult = Pending

\* deps.update(upKey, upPatch)
UpdateCall ==
  /\ upResult = Pending
  /\ upResult' = update(EmptyObj, upTree, upStore, upKey, upPatch, upCall)
  /\ UNCHANGED <<upTree, upStore, upKey, upPatch, upCall, lbVars, rtVars, udVars,
                 ssVars, hpVars, itVars, slVars, dfVars>>

NextUpdate == UpdateCall
SpecUpdate == InitUpdate /\ [][NextUpdate]_vars

(***************************************************************************)
(* A slice is built with createBackupSlice; then one of the actions it     *)
(* exposes is given to slice.reducer.                                      *)
(***************************************************************************)
\* the case reducers of the slice test: state.num += 2 and state.num += 4
Basic == 2
Undoable == 4
SliceNames == {<<"myslice">>, <<"my", "undoable">>}
ReducerKeys == <<<<"basicAction">>, <<"both">>, <<"undoable", "basicAction">>>>
UndoableReducerKeys == <<<<"undoableAction">>, <<"both">>>>
\* the objects whose keys are those of keys that are in chosen, in order
Picked(keys, chosen, val) ==
  [i \in 1..Len(SelectSeq(keys, LAMBDA k : k \in chosen)) |->
     Entry(SelectSeq(keys, LAMBDA k : k \in chosen)[i], val)]
Range1(seq) == {seq[i] : i \in 1..Len(seq)}

InitSlice ==
  /\ IdleLoad
  /\ IdleRoundTrip
  /\ IdleUndo
  /\ IdleSession
  /\ IdleHeap
  /\ IdleIterate
  /\ IdleUpdate
  /\ IdleDiff
  /\ \E name \in SliceNames, r \in SUBSET Range1(ReducerKeys),
        u \in SUBSET Range1(UndoableReducerKeys), given \in BOOLEAN :
       slOptions = [name |-> name,
                    reducers |-> Picked(ReducerKeys, r, Basic),
                    given |-> given,
                    undoableReducers |->
                      IF given THEN Picked(UndoableReducerKeys, u, Undoable)
                      ELSE <<>>]
  /\ slSlice = Pending
  /\ slUsed = NoCall

\* an action of the given type is dispatched on state num: exposed tells
\* whether slice.actions[key] is an action of that type
UsedAction(from, key, num, type) ==
  [from |-> from, key |-> key, num |-> num, type |-> type,
   exposed |-> IF HasKey(slSlice.actions, key)
               THEN Lookup(slSlice.actions, key) = type ELSE FALSE,
   next |-> sliceReducer(slSlice, num, type)]

\* the action made from a key of reducers has the type createSlice gave it,
\* name + "/" + key; the action made from a key of undoableReducers is the
\* one the test takes from slice.actions (no segments when there is none)
Used(from, key, num) ==
  IF from = "reducers" THEN UsedAction(from, key, num, slOptions.name \o key)
  ELSE IF HasKey(slSlice.actions, key)
  THEN UsedAction(from, key, num, Lookup(slSlice.actions, key))
  ELSE UsedAction(from, key, num, <<>>)

CreateBackupSlice ==
  /\ slSlice = Pending
  /\ slSlice' = createBackupSlice(slOptions)
  /\ UNCHANGED <<slOptions, slUsed, lbVars, rtVars, udVars, ssVars, hpVars, itVars,
                 upVars, dfVars>>

\* slice.reducer(initialState, slice.actions[key]) for a key of reducers or
\* of undoableReducers
UseAction ==
  /\ slSlice # Pending
  /\ slUsed = NoCall
  /\ \E from \in {"reducers", "undoableReducers"} :
       \E i \in 1..Len(slOptions[from]), num \in 0..MaxNum :
         slUsed' = Used(from, slOptions[from][i].key, num)
  /\ UNCHANGED <<slOptions, slSlice, lbVars, rtVars, udVars, ssVars, hpVars, itVars,
                 upVars, dfVars>>

NextSlice ==
  \/ CreateBackupSlice
  \/ UseAction
SpecSlice == InitSlice /\ [][NextSlice]_vars

(***************************************************************************)
(* The delta functions of diff.ts on two snapshots, as diff.test.ts uses   *)
(* them: a delta is made from next to prev, next is restored with it       *)
(* (with or without the delta to go back), and the restored snapshot is    *)
(* taken back with the reverse delta.  dfHeap[1] is the object next, which *)
(* the calls are handed by reference.                                      *)
(***************************************************************************)
DiffSnapshots ==
  {Undef}
    \cup {[a |-> Num(n)] : n \in 0..MaxNum}
    \cup {[a |-> Num(n), b |-> Str(<<"b">>)] : n \in 0..MaxNum}
    \cup {[a |-> [x |-> Num(n)], b |-> Arr(<<Num(0)>>)] : n \in 0..MaxNum}
    \cup {[a |-> [x |-> Num(0), y |-> Str(<<"y">>)], b |-> Arr(<<>>)]}

InitDiff ==
  /\ IdleLoad
  /\ IdleRoundTrip
  /\ IdleUndo
  /\ IdleSession
  /\ IdleHeap
  /\ IdleIterate
  /\ IdleUpdate
  /\ IdleSlice
  /\ dfNext \in DiffSnapshots
  /\ dfPrev \in DiffSnapshots
  /\ dfHeap = <<dfNext>>
  /\ dfPc = "start"
  /\ dfRecord = Pending
  /\ dfRestored = Pending
  /\ dfRewind = Pending
  /\ dfReplayed = Pending

\* record = createHistory(next, prev)
CreateHistory ==
  /\ dfPc = "start"
  /\ dfRecord' = createHistory(dfNext, dfPrev)
  /\ dfPc' = "diffed"
  /\ UNCHANGED <<dfNext, dfPrev, dfHeap, dfRestored, dfRewind, dfReplayed>>
  /\ UNCHANGED <<lbVars, rtVars, udVars, ssVars, hpVars, itVars, upVars, slVars>>

\* restored = restore(next, record)
Restore ==
  /\ dfPc = "diffed"
  /\ dfRestored' = restore(dfNext, dfRecord)
  /\ dfHeap' = restoreOnHeap(dfHeap, Ref(1), dfRecord).heap
  /\ dfPc' = "restored"
  /\ UNCHANGED <<dfNext, dfPrev, dfRecord, dfRewind, dfReplayed>>
  /\ UNCHANGED <<lbVars, rtVars, udVars, ssVars, hpVars, itVars, upVars, slVars>>

\* the two fields of the result of restoreWithRewind
Rewound(result) ==
  /\ dfRestored' = result.restored
  /\ dfRewind' = result.diff

\* { restored, diff } = restoreWithRewind(next, record)
RestoreWithRewind ==
  /\ dfPc = "diffed"
  /\ Rewound(restoreWithRewind(dfNext, dfRecord))
  /\ dfHeap' = restoreOnHeap(dfHeap, Ref(1), dfRecord).heap
  /\ dfPc' = "rewound"
  /\ UNCHANGED <<dfNext, dfPrev, dfRecord, dfReplayed>>
  /\ UNCHANGED <<lbVars, rtVars, udVars, ssVars, hpVars, itVars, upVars, slVars>>

\* replayed = restore(restored, diff)
Replay ==
  /\ dfPc = "rewound"
  /\ dfReplayed' = restore(dfRestored, dfRewind)
  /\ dfPc' = "replayed"
  /\ UNCHANGED <<dfNext, dfPrev, dfHeap, dfRecord, dfRestored, dfRewind>>
  /\ UNCHANGED <<lbVars, rtVars, udVars, ssVars, hpVars, itVars, upVars, slVars>>

NextDiff ==
  \/ CreateHistory
  \/ Restore
  \/ RestoreWithRewind
  \/ Replay
SpecDiff == InitDiff /\ [][NextDiff]_vars

(***************************************************************************)
(* Properties of createBackup and loadBackup (SpecRoundTrip).              *)
(***************************************************************************)
\* every codec of the tree gives back the value it saved: load(save(x)) = x
RECURSIVE RoundTrips(_, _)
RoundTrips(tree, st) ==
  \A i \in 1..Len(tree.order) :
    LET key == tree.order[i]
        loader == Loader(tree, key)
    IN IF loader.node = "none" THEN TRUE
       ELSE IF IsCodec(loader)
       THEN Return(loader, Save(loader, Get(st, key)), Undef) = Get(st, key)
       ELSE RoundTrips(loader, Get(st, key))

\* every key of the codec tree, at every level, holds the same value in r as in st
RECURSIVE SameOnTree(_, _, _)
SameOnTree(tree, st, r) ==
  \A i \in 1..Len(tree.order) :
    LET key == tree.order[i]
        loader == Loader(tree, key)
    IN IF loader.node = "none" THEN TRUE
       ELSE IF IsCodec(loader)
       THEN Get(r, key) = Get(st, key)
       ELSE SameOnTree(loader, Get(st, key), Get(r, key))

RECURSIVE Depth(_)
Depth(n) ==
  IF IsCodec(n) THEN 0
  ELSE 1 + (LET ds == {Depth(n.kids[k]) : k \in DOMAIN n.kids}
            IN CHOOSE d \in ds : \A e \in ds : e <= d)

\* C9: for a state S and a codec tree (nested up to 3 levels) whose codecs
\* satisfy load(save(x)) = x and use no needs/update,
\* loadBackup(base, tree, createBackup(S, tree)) has S's value under every key
\* of the codec tree at every level, for any base state, the empty one included.
C9_RoundTrip ==
  (rtPc = "restored" /\ RoundTrips(rtTree, rtState))
    => SameOnTree(rtTree, rtState, rtRestored)

\* C9 witness: a three-level tree was backed up and loaded over a base state
\* holding stale values at every level
C9_Witness ==
  /\ rtPc = "restored"
  /\ Depth(rtTree) = 3
  /\ RoundTrips(rtTree, rtState)
  /\ Get(rtBase, "x") = Num(9)
  /\ IsObj(Get(rtBase, "y"))
  /\ Get(rtState, "x") = Undef
  /\ Get(Get(Get(rtRestored, "y"), "y"), "y") = Str(<<"q", "r">>)

(***************************************************************************)
(* Properties of loadBackup (SpecLoad).                                    *)
(***************************************************************************)
NoDup(s) == \A i, j \in 1..Len(s) : i # j => s[i] # s[j]
Range(s) == {s[i] : i \in 1..Len(s)}
\* the keys a codec's load passes to needs, and to needs or update
NeedsOf(codec) == {codec.ops[i].key : i \in {j \in 1..Len(codec.ops) : codec.ops[j].op = "needs"}}
TouchedBy(codec) == {codec.ops[i].key : i \in 1..Len(codec.ops)}
Updates(codec) == \E i \in 1..Len(codec.ops) : codec.ops[i].op = "update"
\* the keys one call can ask LoadKey for
Requested(tree) == Range(tree.order) \cup UNION {TouchedBy(tree.kids[k]) : k \in DOMAIN tree.kids}
\* A's load calls needs(B) and B's load calls needs(A); A = B is a codec that
\* needs its own key
MutualNeeds(tree) ==
  \E k1, k2 \in DOMAIN tree.kids :
    k2 \in NeedsOf(tree.kids[k1]) /\ k1 \in NeedsOf(tree.kids[k2])
\* k reaches itself along needs
RECURSIVE NeedsWithin(_, _, _)
NeedsWithin(tree, ks, n) ==
  IF n = 0 THEN ks
  ELSE NeedsWithin(tree,
         ks \cup UNION {NeedsOf(tree.kids[k]) : k \in ks \cap DOMAIN tree.kids}, n - 1)
NeedsCycle(tree) ==
  \E k \in DOMAIN tree.kids :
    k \in NeedsWithin(tree, NeedsOf(tree.kids[k]), Cardinality(DOMAIN tree.kids))

\* C6 (as claimed): if codec A's load calls needs('B') and codec B's load calls
\* needs('A'), or a codec's load calls needs on its own key, loadBackup fails
\* with a circular-dependency error instead of returning a state.
C6_CycleRaisesCircularDependency ==
  (lbPc # "ready" /\ MutualNeeds(lbTree))
    => lbResult = Thrown("circular dependency")

\* C7: loadBackup returns (a state or an error) for every codec tree and every
\* pattern of needs/update calls, mutual and self-referential needs included,
\* and one call enters LoadKey at most once per distinct key requested.
C7_ActivationsBounded ==
  /\ lbPc # "ready" =>
       /\ lbResult # Pending
       /\ NoDup(lbCall.entered)
       /\ Range(lbCall.entered) \subseteq Requested(lbTree)
       /\ Len(lbCall.entered) <= Cardinality(Requested(lbTree))
  /\ lbPc = "done" =>
       /\ lbRefResult # Pending
       /\ Len(lbRefCall.entered) <= Cardinality(Requested(lbTree))

\* C7 witness: a call on a tree with mutual needs has returned a state after
\* entering LoadKey once for each of the four keys requested
C7_Witness ==
  /\ lbPc # "ready"
  /\ MutualNeeds(lbTree)
  /\ lbCall.err = "none"
  /\ Len(lbCall.entered) = 4

\* C8: within one loadBackup call each key's codec load is invoked at most
\* once, whatever the declaration order and however often siblings call
\* needs(key) or update(key, ...).
C8_EachKeyLoadedOnce ==
  /\ lbPc # "ready" => NoDup(lbCall.ran)
  /\ lbPc = "done" => NoDup(lbRefCall.ran)

\* C8 witness: two siblings declared around 'shared' both called needs and
\* update on it, and all three loads ran once
C8_Witness ==
  /\ lbPc # "ready"
  /\ lbTree.order = <<"a", "shared", "b">>
  /\ lbTree.kids["a"] = IncrCodec("shared")
  /\ lbTree.kids["b"] = IncrCodec("shared")
  /\ lbCall.err = "none"
  /\ lbCall.ran = <<"a", "shared", "b">>

\* trees of dependent codecs on which the declaration order cannot matter:
\* loads that only read other keys (needs, never update) along an acyclic
\* needs relation, or the siblings of the repository's tests around a copied
\* 'shared' key: each increments it, or each rewrites its own field of it
DependsOnAnother(tree) == \E k \in DOMAIN tree.kids : tree.kids[k].ops # <<>>
ReadsOnlyAcyclic(tree) ==
  /\ \A k \in DOMAIN tree.kids : ~Updates(tree.kids[k])
  /\ ~NeedsCycle(tree)
CommutingSiblings(tree) ==
  /\ tree.kids["shared"] = CopySliceBackupInterface
  /\ \/ {tree.kids["a"], tree.kids["b"]}
          \subseteq {CopySliceBackupInterface, IncrCodec("shared")}
     \/ /\ {tree.kids["a"], tree.kids["b"]}
             \subseteq {CopySliceBackupInterface, RebuildCodec("shared", "a", 0),
                        RebuildCodec("shared", "b", 1)}
        /\ (tree.kids["a"] = tree.kids["b"] => tree.kids["a"] = CopySliceBackupInterface)
OrderSafe(tree) == ReadsOnlyAcyclic(tree) \/ CommutingSiblings(tree)

\* C10 (as claimed): two codec trees with the same codecs that differ only in
\* key declaration order, where one codec's load depends on another via
\* needs/update, give identical loadBackup results on the same base state and
\* snapshot.
C10_AnyOrderSameResult ==
  (lbPc = "done" /\ DependsOnAnother(lbTree)) => lbResult = lbRefResult

\* C10 (amended): the results are identical when the loads depend on one
\* another through needs only and the needs relation is acyclic, or when the
\* sibling codecs apply commuting updates to a copied shared key (each
\* increments it, or each rewrites its own field of it).
C10_OrderSafeSameResult ==
  (lbPc = "done" /\ DependsOnAnother(lbTree) /\ OrderSafe(lbTree))
    => lbResult = lbRefResult

\* C10 witness: the rebuild siblings declared after 'shared' loaded the same
\* state as in the reference order
C10_Witness ==
  /\ lbPc = "done"
  /\ lbTree.order = <<"shared", "b", "a">>
  /\ lbTree.kids["a"] = RebuildCodec("shared", "a", 0)
  /\ lbTree.kids["b"] = RebuildCodec("shared", "b", 1)
  /\ lbTree.kids["shared"] = CopySliceBackupInterface
  /\ IsObj(lbResult)
  /\ lbResult = lbRefResult
  /\ Get(lbResult, "shared") = [a |-> Num(0), b |-> Num(1)]

\* the siblings of 'shared' whose load calls needs('shared') and then
\* update('shared', value + 1)
Incrementers(tree) == {k \in {"a", "b"} : tree.kids[k] = IncrCodec("shared")}
\* the other sibling (if any) copies its data, and so does 'shared', whose
\* load may also set a key outside the tree
SharedCounterTree(tree) ==
  /\ Incrementers(tree) # {}
  /\ \A k \in {"a", "b"} \ Incrementers(tree) : tree.kids[k] = CopySliceBackupInterface
  /\ tree.kids["shared"] \in {CopySliceBackupInterface, SetCodec("other", 5)}

\* C11: when n sibling codecs each call needs('shared') and then
\* update('shared', value + 1), the loaded 'shared' is its snapshot value plus
\* n, wherever 'shared' is declared, and the load of 'shared' runs once.
C11_SharedCounterPlusN ==
  (lbPc = "done" /\ SharedCounterTree(lbTree) /\ IsNum(lbStore["shared"]))
    => LET plusN == Num(lbStore["shared"].n + Cardinality(Incrementers(lbTree)))
       IN /\ IsObj(lbResult) /\ Get(lbResult, "shared") = plusN
          /\ IsObj(lbRefResult) /\ Get(lbRefResult, "shared") = plusN
          /\ Cardinality({i \in 1..Len(lbCall.ran) : lbCall.ran[i] = "shared"}) = 1

\* C11 witness: two incrementing siblings, 'shared' declared between them, and
\* the loaded counter is the stored one plus 2
C11_Witness ==
  /\ lbPc = "done"
  /\ lbTree.order = <<"a", "shared", "b">>
  /\ Incrementers(lbTree) = {"a", "b"}
  /\ lbTree.kids["shared"] = CopySliceBackupInterface
  /\ lbStore["shared"] = Num(1)
  /\ IsObj(lbResult)
  /\ Get(lbResult, "shared") = Num(3)

\* the keys of a codec tree that hold a codec or a nested tree
NodeKeys(tree) == {k \in Range(tree.order) : Loader(tree, k).node # "none"}
\* b is the projection of st on the codec tree: at every level exactly the
\* tree's node keys, a codec key holding codec.save(st[key]), a nested key
\* holding the projection of st[key]
RECURSIVE IsProjection(_, _, _)
IsProjection(tree, st, b) ==
  /\ IsObj(b)
  /\ DOMAIN b = NodeKeys(tree)
  /\ \A k \in NodeKeys(tree) :
       IF IsCodec(tree.kids[k])
       THEN b[k] = Save(tree.kids[k], Get(st, k))
       ELSE IsProjection(tree.kids[k], Get(st, k), b[k])

\* C12: the snapshot createBackup returns has, at every level, exactly the
\* keys of the codec tree that hold a codec or nested tree; a codec key holds
\* codec.save(state[key]) (possibly undefined), a nested key the recursive
\* backup, and state keys absent from the tree never appear.
C12_BackupIsProjection ==
  rtPc \in {"saved", "restored"} => IsProjection(rtTree, rtState, rtBackup)

\* C12 witness: a backup was made of a state holding 'w' and 'z' at two levels
\* under a tree that declares 'z' without a codec, and a codec saved undefined
C12_Witness ==
  /\ rtPc = "saved"
  /\ rtTree.order = <<"z", "y", "x">>
  /\ "w" \in DOMAIN rtState
  /\ ~IsCodec(rtTree.kids["y"])
  /\ "w" \in DOMAIN rtState["y"]
  /\ DOMAIN rtBackup = {"x", "y"}
  /\ DOMAIN rtBackup["y"] = {"x", "y"}
  /\ rtBackup["x"] = Undef

\* C13 (as claimed): in the result of loadBackup every key of the base state
\* that is absent from the codec tree has its base-state value, whatever the
\* codecs' loads do with needs and update.
C13_AbsentKeysKeepBase ==
  (lbPc # "ready" /\ IsObj(lbResult))
    => \A k \in (DOMAIN lbBase) \ (DOMAIN lbTree.kids) :
         Get(lbResult, k) = lbBase[k]

(***************************************************************************)
(* Properties of the undoable reducer (Spec).                              *)
(***************************************************************************)
\* number of moment-recording actions of the run followed so far
NMoments == Len(run.moments) - 1

\* C1: with no history limit, after INIT and N >= 1 moment-recording actions,
\* N undos followed by N redos give back the covered live state and the present
\* held right after the N-th moment, with history of length N and future empty.
C1_UndoAllRedoAll ==
  (/\ run.shape = "redos"
   /\ historyLimit = Undef
   /\ NMoments >= 1
   /\ run.nUndo = NMoments
   /\ run.nRedo = NMoments)
    => /\ Covered(state) = Covered(run.saved)
       /\ Get(state, "present") = Get(run.saved, "present")
       /\ Len(HistoryOf(state)) = NMoments
       /\ FutureOf(state) = <<>>

\* C2: for k < N (and k no more than the entries history holds), k undos
\* followed by k redos give back the envelope held before the first undo:
\* covered live state, present, history and future.
C2_UndoSomeRedoSome ==
  (/\ run.shape = "redos"
   /\ run.nRedo = run.nUndo
   /\ run.nUndo < NMoments
   /\ run.nUndo <= Len(HistoryOf(run.saved)))
    => /\ Covered(state) = Covered(run.saved)
       /\ Get(state, "present") = Get(run.saved, "present")
       /\ HistoryOf(state) = HistoryOf(run.saved)
       /\ FutureOf(state) = FutureOf(run.saved)

\* C3: with no history limit, after INIT and N moment-recording actions, in any
\* interleaving of undos and redos that each find their list non-empty,
\* history.length = i = N - #undos + #redos, present = M_i, and the covered
\* live state is the one loaded from M_i.
C3_PresentFollowsIndex ==
  (/\ run.shape \in {"moments", "undos", "redos", "mixed"}
   /\ run.findsOk
   /\ historyLimit = Undef)
    => /\ Len(HistoryOf(state)) = run.idx
       /\ run.idx \in 0..NMoments
       /\ Get(state, "present") = run.moments[run.idx + 1]
       /\ Covered(state)
            = Covered(loadBackup(state, stateBackupInterface, run.moments[run.idx + 1]))

\* C4: with a history limit L, history never holds more than L deltas.
C4_HistoryWithinLimit ==
  (historyLimit # Undef /\ IsEnvelope(state))
    => Len(HistoryOf(state)) <= historyLimit.n

C15_FirstCallRecordsPresentOnly ==
  [][IsUninit(state)
       => /\ IsEnvelope(state')
          /\ HistoryOf(state') = <<>>
          /\ FutureOf(state') = <<>>
          /\ Get(state', "present") = createBackup(lastReduced', stateBackupInterface)
          /\ Covered(state') = lastReduced']_vars
\* the first call, on an empty object and with a '/undoable/' type, has just
\* returned an envelope with a present and no history
C15_Witness ==
  /\ preloadedState = EmptyObj
  /\ run.shape = "moments"
  /\ Len(run.moments) = 1
  /\ lastType = getUndoableActionType("feature", "type")
  /\ HistoryOf(state) = <<>>
  /\ Get(state, "present") = [slice |-> Str(<<"a", "a", ",", "b">>)]

\* C16: a moment-recording action on an envelope with a defined present gives
\* present = createBackup(post-transition state), history = the delta
\* createHistory(newPresent, oldPresent) followed by the previous history (all
\* of it when there is no limit or its length is below the limit, so that
\* history grows by exactly 1; its newest entries otherwise), history of length
\* 1 after INIT plus one such action, and future empty.
C16_MomentPrependsDelta ==
  [][(/\ IsEnvelope(state)
      /\ Get(state, "present") # Undef
      /\ Kind(lastType') = "moment")
       => LET old == HistoryOf(state)
              new == HistoryOf(state')
          IN /\ Get(state', "present") = createBackup(lastReduced', stateBackupInterface)
             /\ new # <<>>
             /\ Head(new) = createHistory(Get(state', "present"), Get(state, "present"))
             /\ Len(new) - 1 <= Len(old)
             /\ Tail(new) = SubSeq(old, 1, Len(new) - 1)
             /\ (historyLimit = Undef \/ Len(old) < historyLimit.n)
                  => Len(new) = Len(old) + 1
             /\ (run'.shape = "moments" /\ Len(run'.moments) = 2) => Len(new) = 1
             /\ FutureOf(state') = <<>>]_vars
\* INIT and two moment-recording actions that changed the snapshot have left
\* two deltas in history, and with a limit of 1 a moment was recorded below it
C16_Witness ==
  /\ run.shape = "moments"
  /\ Len(run.moments) = 3
  /\ historyLimit = Undef
  /\ Len(HistoryOf(state)) = 2
  /\ HistoryOf(state)[1] # Undef
  /\ HistoryOf(state)[2] # Undef

\* C17: an undo dispatched on an envelope whose history is empty, or a redo on
\* one whose future is empty, leaves history, present and future as they were
\* and loads no snapshot: the live state is what the wrapped reducer returned.
C17_NothingToRestoreIsNoOp ==
  [][(/\ IsEnvelope(state)
      /\ IF lastType' = undo THEN HistoryOf(state) = <<>>
         ELSE lastType' = redo /\ FutureOf(state) = <<>>)
       => /\ Get(state', "history") = Get(state, "history")
          /\ Get(state', "present") = Get(state, "present")
          /\ Get(state', "future") = Get(state, "future")
          /\ Covered(state') = lastReduced']_vars
\* a second undo after the only moment was undone: nothing was left to undo,
\* and the live slice differs from the one the present snapshot records
C17_Witness ==
  /\ IsEnvelope(state)
  /\ lastType = undo
  /\ report = CouldNotFindMoment
  /\ HistoryOf(state) = <<>>
  /\ FutureOf(state) # <<>>
  /\ Get(state, "present") # Undef
  /\ Get(state, "present") # createBackup(Clip(state), stateBackupInterface)

\* C18: present is undefined only before the first call: every envelope the
\* reducer returns has a defined present, and the call that first defines
\* present is a moment-recording one (the initialization call or an undoable
\* action).
C18_PresentDefinedAfterFirstCall ==
  [][/\ IsEnvelope(state') => Get(state', "present") # Undef
     /\ (Get(state, "present") = Undef /\ Get(state', "present") # Undef)
          => (IsUninit(state) \/ Kind(lastType') = "moment")]_vars

(***************************************************************************)
(* Properties of the storage functions and the session middleware.         *)
(***************************************************************************)
\* the load met one of the failures: reading the storage threw, the key was
\* missing or held the empty text, the text did not parse, or loadBackup
\* threw on the parsed data
LoadFailed(load) ==
  IF IsThrown(getItem(load.storage, sessionKey)) THEN TRUE
  ELSE IF Falsy(getItem(load.storage, sessionKey)) THEN TRUE
  ELSE IF IsThrown(JSONparse(getItem(load.storage, sessionKey))) THEN TRUE
  ELSE IsThrown(loadBackup(load.given, stateBackupInterface,
                           JSONparse(getItem(load.storage, sessionKey))))

\* C19: loadFromStorage never throws, and it returns the state it was given
\* whenever the key is missing or empty, reading the storage throws, the
\* stored text fails to parse, or loadBackup throws.
C19_LoadFailureReturnsGivenState ==
  ssLoad # NoCall
    => /\ ~IsThrown(ssLoad.returned)
       /\ LoadFailed(ssLoad) => ssLoad.returned = ssLoad.given
\* the stored JSON parsed, loadBackup threw on it, and the given state came back
C19_Witness ==
  /\ ssLoad # NoCall
  /\ ~ssLoad.storage.throws
  /\ getItem(ssLoad.storage, sessionKey) = JSONText([slice |-> Num(1)])
  /\ IsThrown(loadBackup(ssLoad.given, stateBackupInterface, [slice |-> Num(1)]))
  /\ ssLoad.given = initialState
  /\ ssLoad.returned = initialState

\* C20: a failure of saveToStorage (setItem or createBackup throwing) does not
\* leave the middleware: every dispatch returns the result of next(action),
\* and the store holds the post-action state.
C20_SaveFailureStaysOutOfDispatch ==
  ssDispatch # NoCall
    => /\ ssDispatch.returned = ssDispatch.result
       /\ ssStore = ssDispatch.reduced

(***************************************************************************)
(* Properties of the wrapped reducer on the heap.                          *)
(***************************************************************************)
\* the heap model returns the envelope that undoableReducer computes
HeapAgreesWithReducer ==
  hpType # <<>>
    => EnvOf(hpHeap, hpState)
         = undoableReducer(EnvOf(hpBefore, hpIncoming), hpType, hpReduced,
                           stateBackupInterface, hpLimit).state

\* C21: every call of the wrapped reducer returns a newly made envelope
\* object and leaves every object of the incoming envelope (the envelope,
\* its history and future lists and its present snapshot) as it was, for
\* every action class.
C21_IncomingEnvelopeUntouched ==
  hpType # <<>>
    => /\ hpAfter = hpBefore
       /\ hpReturned.n > Len(hpBefore)
\* an undo that restored a moment: the incoming envelope had a history
\* entry and a present, and the returned one has a future entry
C21_Witness ==
  /\ hpType = undo
  /\ hpIncoming # Undef
  /\ Len(hpBefore) = 4
  /\ Field(hpBefore, hpIncoming, "history").a # <<>>
  /\ Field(hpHeap, hpState, "future").a # <<>>
  /\ Field(hpHeap, hpState, "present") # Field(hpBefore, hpIncoming, "present")
  /\ hpAfter = hpBefore

(***************************************************************************)
(* Properties of historyIterator.                                          *)
(***************************************************************************)
\* history[0..i-1] applied cumulatively to current with restore
RECURSIVE Cumulative(_, _, _)
Cumulative(current, history, i) ==
  IF i = 0 THEN current
  ELSE restore(Cumulative(current, history, i - 1), history[i])

\* C22: an iteration of historyIterator(current, history) yields nothing
\* when current is undefined; otherwise its i-th value is history[0..i-1]
\* applied cumulatively to current (for a history made by createHistory the
\* i-th earlier recorded state, newest first, current not included), it
\* ends after exactly history.length values, and every new iteration starts
\* again from current.
C22_IteratorYieldsEarlierStates ==
  itGen # NoCall
    => /\ itCurrent = Undef => itYielded = <<>>
       /\ Len(itYielded) <= Len(itHistory)
       /\ \A i \in 1..Len(itYielded) :
            /\ itYielded[i] = Cumulative(itCurrent, itHistory, i)
            /\ itYielded[i] = itRecords[Len(itRecords) - i]
       /\ (itGen.done /\ itCurrent # Undef) => Len(itYielded) = Len(itHistory)
\* the second iteration of a history of two deltas has ended, having
\* yielded the two earlier records
C22_Witness ==
  /\ itRuns = 2
  /\ itGen # NoCall
  /\ itGen.done
  /\ itCurrent # Undef
  /\ Len(itYielded) = 2
  /\ itYielded[1] # itYielded[2]
  /\ itYielded[1] # itCurrent
  /\ \E i \in 1..2 : "b" \in DOMAIN itYielded[i]

(***************************************************************************)
(* Properties of dependencyLoader.update.                                  *)
(***************************************************************************)
\* a number, a string, a boolean or an array
IsScalarOrSequence(v) == ~IsObj(v)

\* C23: update(key, patch) first ensures that key is loaded; then the loaded
\* value is patch itself when patch is a scalar or a sequence, and the
\* shallow merge of the value loaded for key with patch when patch is a
\* record.
C23_UpdateReplacesOrMerges ==
  upResult # Pending
    => /\ upResult.err = "none"
       /\ upKey \in upResult.loadedKeys
       /\ InSeq(upKey, upResult.ran)
       /\ Get(upResult.loaded, upKey)
            = IF IsScalarOrSequence(upPatch) THEN upPatch
              ELSE Spread(Get(upStore, upKey), upPatch)
\* what update does for the patches that typeof reports as number or string
\* and for arrays and records
UpdateOfNonBoolean ==
  (upResult # Pending /\ upPatch # Bool(TRUE))
    => /\ upResult.err = "none"
       /\ upKey \in upResult.loadedKeys
       /\ InSeq(upKey, upResult.ran)
       /\ Get(upResult.loaded, upKey)
            = IF IsScalarOrSequence(upPatch) THEN upPatch
              ELSE Spread(Get(upStore, upKey), upPatch)

(***************************************************************************)
(* Properties of createBackupSlice.                                        *)
(***************************************************************************)
\* what the claim says of the action used: it is exposed under the key's
\* plain name, its type has the marker exactly when the key is one of
\* undoableReducers, and the slice reducer applied the key's case reducer
ActionProcessedProperly ==
  /\ slUsed.from = "undoableReducers" => slUsed.exposed
  /\ HasUndoableMarker(slUsed.type) <=> (slUsed.from = "undoableReducers")
  /\ slUsed.next = slUsed.num + (IF slUsed.from = "reducers" THEN Basic ELSE Undoable)

\* C24: for a slice built by createBackupSlice, every action made from
\* undoableReducers has the marker in its type and is exposed under its
\* plain name, every action made from reducers has no marker in its type,
\* and the slice reducer applies the matching case reducer for both.
C24_UndoableActionsMarked ==
  slUsed # NoCall => ActionProcessedProperly

\* no path segment of the slice name or of a key of reducers is "undoable"
PlainNames(options) ==
  /\ \A i \in 1..Len(options.name) : options.name[i] # "undoable"
  /\ \A i \in 1..Len(options.reducers) :
       \A j \in 1..Len(options.reducers[i].key) :
         options.reducers[i].key[j] # "undoable"

\* C24, amended: the statement holds for a slice whose name and keys of
\* reducers have no path segment "undoable".
C24_UndoableActionsMarkedForPlainNames ==
  (slUsed # NoCall /\ PlainNames(slOptions)) => ActionProcessedProperly
\* a slice with a key in both option objects: its undoable action was used
C24_Witness ==
  /\ slUsed # NoCall
  /\ PlainNames(slOptions)
  /\ HasKey(slOptions.reducers, <<"both">>)
  /\ HasKey(slOptions.undoableReducers, <<"both">>)
  /\ slUsed.from = "undoableReducers"
  /\ slUsed.key = <<"undoableAction">>
  /\ slUsed.type = <<"myslice", "undoable", "undoableAction">>
  /\ slUsed.next = slUsed.num + Undoable

(***************************************************************************)
(* Properties of undo, redo and apply on the lists of the envelope.        *)
(***************************************************************************)
\* the step is a dispatch of the given type that restored a moment
Succeeds(type) == lastType' = type /\ report' = Silent

\* C25: a successful undo removes history[0] and puts its reverse delta in
\* front of future, a successful redo removes future[0] and puts its reverse
\* delta in front of history; the other entries keep their order, so
\* history.length + future.length is unchanged.
C25_UndoRedoMoveOneEntry ==
  [][/\ Succeeds(undo)
          => /\ IsEnvelope(state) /\ IsEnvelope(state')
             /\ HistoryOf(state) # <<>>
             /\ HistoryOf(state') = Tail(HistoryOf(state))
             /\ FutureOf(state')
                  = <<reverse(HistoryOf(state)[1])>> \o FutureOf(state)
             /\ Len(HistoryOf(state')) + Len(FutureOf(state'))
                  = Len(HistoryOf(state)) + Len(FutureOf(state))
     /\ Succeeds(redo)
          => /\ IsEnvelope(state) /\ IsEnvelope(state')
             /\ FutureOf(state) # <<>>
             /\ FutureOf(state') = Tail(FutureOf(state))
             /\ HistoryOf(state')
                  = <<reverse(FutureOf(state)[1])>> \o HistoryOf(state)
             /\ Len(HistoryOf(state')) + Len(FutureOf(state'))
                  = Len(HistoryOf(state)) + Len(FutureOf(state))]_vars
\* a redo has just succeeded and left a delta in history and one in future
C25_Witness ==
  /\ lastType = redo
  /\ report = Silent
  /\ IsEnvelope(state)
  /\ Len(HistoryOf(state)) >= 1
  /\ Len(FutureOf(state)) >= 1

\* the moment an undo of the envelope leads to: its history[0] applied to
\* its present
PriorMoment(st) == restore(Get(st, "present"), HistoryOf(st)[1])
\* the present an undo dispatched on the envelope leaves
PresentAfterUndo(st) ==
  Get(restoreMoment(st, stateBackupInterface, 1).state, "present")

\* C26: an apply on an envelope with a non-empty history sets present to
\* createBackup of the live state, replaces history[0] by the delta from the
\* new present to the prior moment, keeps history[1..] and the length of
\* history, and empties future; an undo that follows reaches the prior moment
\* that an undo before the apply would have reached.
C26_ApplyResyncsFirstDelta ==
  [][(/\ lastType' = apply
      /\ IsEnvelope(state)
      /\ IF IsEnvelope(state) THEN HistoryOf(state) # <<>> ELSE FALSE)
       => /\ IsEnvelope(state')
          /\ Get(state', "present") = createBackup(state', stateBackupInterface)
          /\ Len(HistoryOf(state')) = Len(HistoryOf(state))
          /\ HistoryOf(state')[1]
               = createHistory(Get(state', "present"), PriorMoment(state))
          /\ PriorMoment(state') = PriorMoment(state)
          /\ Tail(HistoryOf(state')) = Tail(HistoryOf(state))
          /\ FutureOf(state') = <<>>
          /\ PresentAfterUndo(state') = PriorMoment(state)
          /\ PresentAfterUndo(state') = PresentAfterUndo(state)]_vars
\* an apply has just rewritten the one delta of history, which leads from the
\* new present to a different prior moment, and dropped a pending redo
C26_Witness ==
  /\ lastType = apply
  /\ lastHadFuture
  /\ IsEnvelope(state)
  /\ Len(HistoryOf(state)) = 1
  /\ HistoryOf(state)[1] # Undef
  /\ Get(state, "present") = createBackup(state, stateBackupInterface)

\* C27: an apply on an envelope whose history is empty sets present to
\* createBackup of the live state and leaves history and future empty: a
\* pending redo is discarded and no delta is recorded.
C27_ApplyOnEmptyHistoryReplacesPresent ==
  [][(/\ lastType' = apply
      /\ IsEnvelope(state)
      /\ IF IsEnvelope(state) THEN HistoryOf(state) = <<>> ELSE FALSE)
       => /\ IsEnvelope(state')
          /\ Get(state', "present") = createBackup(state', stateBackupInterface)
          /\ HistoryOf(state') = <<>>
          /\ FutureOf(state') = <<>>]_vars
\* an apply on an empty history has just dropped a pending redo
C27_Witness ==
  /\ lastType = apply
  /\ lastHadFuture
  /\ IsEnvelope(state)
  /\ HistoryOf(state) = <<>>
  /\ FutureOf(state) = <<>>

(***************************************************************************)
(* Properties of the bookkeeping of loadBackup.                            *)
(***************************************************************************)
\* C28: a key is marked loaded only after its load has returned: while the
\* load of a key is in progress the key is in loadQueue and not in
\* loadedKeys, so a needs(key) called meanwhile does not return a value.
C28_MarkedLoadedAfterLoadReturns ==
  lbPc # "ready" =>
    \A i \in 1..Len(lbCall.early) :
      /\ ~lbCall.early[i].marked
      /\ ~lbCall.early[i].returned

\* C29: the double-load failure is unreachable: no loadBackup call ends with
\* it, and LoadKey is entered for keys that are not in loadedKeys only, so
\* no key is entered twice.
C29_DoubleLoadUnreachable ==
  /\ lbCall.err # "double load"
  /\ lbRefCall.err # "double load"
  /\ lbResult # Thrown("double load")
  /\ lbRefResult # Thrown("double load")
  /\ NoDup(lbCall.entered) /\ NoDup(lbRefCall.entered)
\* a call has returned a state although needs was called for a key that was
\* in loadedKeys already, its load being in progress
C29_Witness ==
  /\ lbPc = "done"
  /\ lbCall.err = "none"
  /\ lbRefCall.err = "none"
  /\ lbCall.early # <<>>
  /\ \A i \in 1..Len(lbCall.early) : lbCall.early[i].marked

(***************************************************************************)
(* Properties of the truncation of history.                                *)
(***************************************************************************)
\* the number of undos in a row that restore a moment, from the envelope on
RECURSIVE CanStillUndo(_, _)
CanStillUndo(st, n) ==
  IF n = 0 THEN 0
  ELSE IF restoreMoment(st, stateBackupInterface, 1).report = Silent
  THEN 1 + CanStillUndo(restoreMoment(st, stateBackupInterface, 1).state, n - 1)
  ELSE 0

\* the step is a moment-recording action on an envelope that has a present
RecordsMoment ==
  /\ Kind(lastType') = "moment"
  /\ IsEnvelope(state)
  /\ Get(state, "present") # Undef

\* history after the step is the new delta followed by the first entries of
\* the history before it, all of them when no limit is configured
DropsOldestOnly ==
  /\ IsEnvelope(state')
  /\ HistoryOf(state') # <<>>
  /\ HistoryOf(state')[1]
       = createHistory(Get(state', "present"), Get(state, "present"))
  /\ Len(HistoryOf(state')) - 1 <= Len(HistoryOf(state))
  /\ Tail(HistoryOf(state'))
       = SubSeq(HistoryOf(state), 1, Len(HistoryOf(state')) - 1)
  /\ historyLimit = Undef => Tail(HistoryOf(state')) = HistoryOf(state)

\* C30: a moment-recording action drops only the oldest deltas: history
\* after it is the new delta followed by a prefix of the history before it,
\* and without a limit nothing is dropped, so the length of history is the
\* number of moments that can still be undone.
C30_TruncationDropsOldestOnly ==
  [][RecordsMoment
       => /\ DropsOldestOnly
          /\ historyLimit = Undef
               => Len(HistoryOf(state'))
                    = CanStillUndo(state', Len(HistoryOf(state')))]_vars

\* the part of C30 about the entries: new delta, then a prefix of the
\* history before the action, the whole of it without a limit
TruncationKeepsNewest == [][RecordsMoment => DropsOldestOnly]_vars

\* without a limit, the length of a history whose deltas are all defined is
\* the number of moments that can still be undone
DefinedDeltasCanBeUndone ==
  (/\ historyLimit = Undef
   /\ IsEnvelope(state)
   /\ IF IsEnvelope(state)
      THEN \A i \in 1..Len(HistoryOf(state)) : HistoryOf(state)[i] # Undef
      ELSE FALSE)
    => Len(HistoryOf(state)) = CanStillUndo(state, Len(HistoryOf(state)))

(***************************************************************************)
(* Properties of the delta functions.                                      *)
(***************************************************************************)
\* C31: createHistory(next, prev) leads from the newer snapshot to the older
\* one: restore(next, createHistory(next, prev)) is prev, and next is left
\* as it was.
C31_DeltaLeadsFromNextToPrev ==
  /\ dfPc \in {"diffed", "restored", "rewound", "replayed"}
       => dfHeap[1] = dfNext
  /\ dfPc = "restored"
       => /\ dfRestored = dfPrev
          /\ dfHeap[Len(dfHeap)] = dfPrev
\* two different objects: next was restored to prev, which lacks a key of
\* next and differs in a nested field
C31_Witness ==
  /\ dfPc = "restored"
  /\ dfNext = [a |-> [x |-> Num(0), y |-> Str(<<"y">>)], b |-> Arr(<<>>)]
  /\ dfPrev = [a |-> [x |-> Num(1)], b |-> Arr(<<Num(0)>>)]
  /\ dfRestored = dfPrev
  /\ Len(dfHeap) = 2

\* C32: restoreWithRewind(current, delta) returns restored equal to
\* restore(current, delta) and a reverse delta that takes restored back to
\* current: restore(restored, diff) = current.
C32_RewindDeltaLeadsBack ==
  /\ dfPc \in {"rewound", "replayed"}
       => /\ dfRestored = restore(dfNext, dfRecord)
          /\ dfHeap[1] = dfNext
  /\ dfPc = "replayed" => dfReplayed = dfNext
\* an object restored to a different one was taken back with the reverse
\* delta
C32_Witness ==
  /\ dfPc = "replayed"
  /\ dfNext = [a |-> Num(0), b |-> Str(<<"b">>)]
  /\ dfPrev = [a |-> [x |-> Num(1)], b |-> Arr(<<Num(0)>>)]
  /\ dfRestored = dfPrev
  /\ dfRewind # Undef
  /\ dfReplayed = dfNext

(***************************************************************************)
(* Properties of the future list and of the live state around undo and     *)
(* redo.                                                                   *)
(***************************************************************************)
\* C33: the future list is cleared whenever an action other than undo or
\* redo is handled by the reducer.
C33_FutureClearedByOtherActions ==
  [][Kind(lastType') \in {"plain", "moment", "apply"}
       => /\ IsEnvelope(state')
          /\ FutureOf(state') = <<>>]_vars

\* the part of C33 that the reducer does: moment-recording actions, apply
\* and the initialization call leave future empty, and every other action
\* but undo and redo leaves future as it was
FutureClearedByMomentsAndApply ==
  [][/\ (Kind(lastType') \in {"moment", "apply"} \/ IsUninit(state))
          => /\ IsEnvelope(state')
             /\ FutureOf(state') = <<>>
     /\ (Kind(lastType') = "plain" /\ IsEnvelope(state))
          => FutureOf(state') = FutureOf(state)]_vars

\* the step restores the moment that the first entry of the source list
\* leads to, and moves one entry from the source list to the other list
ConsumesOne(source, other) ==
  /\ report' = Silent
  /\ IsEnvelope(state')
  /\ Len(Get(state', source).a) = Len(Get(state, source).a) - 1
  /\ Len(Get(state', other).a) = Len(Get(state, other).a) + 1
  /\ Get(state', "present")
       = restore(Get(state, "present"), Get(state, source).a[1])

\* the envelope has an entry in the list
HasEntry(st, source) ==
  IF IsEnvelope(st) THEN Get(st, source).a # <<>> ELSE FALSE
\* the envelope has an entry in the list and the first one is a delta
HasDelta(st, source) ==
  IF HasEntry(st, source) THEN Get(st, source).a[1] # Undef ELSE FALSE

\* C34: an undo dispatched while history is non-empty succeeds and a redo
\* dispatched while future is non-empty succeeds, consuming one entry of the
\* source list and stepping present, also when the entry was recorded for a
\* snapshot equal to the one before it.
C34_UndoRedoSucceedOnNonEmptyList ==
  [][/\ (lastType' = undo /\ HasEntry(state, "history"))
          => ConsumesOne("history", "future")
     /\ (lastType' = redo /\ HasEntry(state, "future"))
          => ConsumesOne("future", "history")]_vars

\* the part of C34 that the reducer does: an undo or a redo whose entry is a
\* delta succeeds, and future never holds an undefined entry
UndoRedoSucceedOnDeltas ==
  [][/\ (lastType' = undo /\ HasDelta(state, "history"))
          => ConsumesOne("history", "future")
     /\ (lastType' = redo /\ HasEntry(state, "future"))
          => /\ HasDelta(state, "future")
             /\ ConsumesOne("future", "history")]_vars

\* the covered part of the live state is the one loaded from present
LoadedFromPresent(st) ==
  Covered(st) = Covered(loadBackup(st, stateBackupInterface, Get(st, "present")))

\* C35: after every successful undo or redo the covered live state is the
\* one loaded from the new present: what plain actions made of the covered
\* fields since the last moment is dropped by the undo and not brought back
\* by the redo, unless an apply put it into present before the undo.
C35_LiveStateLoadedFromPresent ==
  [][/\ (Succeeds(undo) \/ Succeeds(redo)) => LoadedFromPresent(state')
     /\ Succeeds(undo)
          => Get(state', "present")
               = restore(Get(state, "present"), HistoryOf(state)[1])
     /\ Succeeds(redo)
          => Get(state', "present")
               = restore(Get(state, "present"), FutureOf(state)[1])
     /\ (lastType' = apply /\ IsEnvelope(state))
          => Get(state', "present") = createBackup(state', stateBackupInterface)]_vars
\* a redo has just loaded the covered live state from present, dropping what
\* the wrapped reducer made of the covered fields
C35_Witness ==
  /\ lastType = redo
  /\ report = Silent
  /\ LoadedFromPresent(state)
  /\ Covered(state) # lastReduced
  /\ Get(state, "present") = createBackup(state, stateBackupInterface)

\* the fields of the live state that no codec covers
Uncovered(st) ==
  [k \in (DOMAIN st) \ (UndoKeys \cup DOMAIN stateBackupInterface.kids) |-> st[k]]

\* C36: on undo and redo the wrapped reducer runs first and loadBackup
\* starts from its result: the fields that no codec covers hold the wrapped
\* reducer's output for the undo or redo action, and the covered fields are
\* the ones loaded from the stepped present.
C36_UncoveredFieldsFollowReducer ==
  [][(Succeeds(undo) \/ Succeeds(redo))
       => /\ \E reduced \in reducer(Clip(state), lastType') :
               /\ Covered(reduced) = lastReduced'
               /\ Uncovered(state') = Uncovered(reduced)
          /\ Uncovered(state') # Uncovered(state)
          /\ LoadedFromPresent(state')]_vars
\* an undo has just stepped present back while the uncovered field holds the
\* wrapped reducer's output and the covered ones do not
C36_Witness ==
  /\ lastType = undo
  /\ report = Silent
  /\ LoadedFromPresent(state)
  /\ Covered(state) # lastReduced
  /\ FutureOf(state) # <<>>

(***************************************************************************)
(* Properties of the order of dispatch and save in the session middleware. *)
(***************************************************************************)
\* the last dispatch returned the result of next(action), the store holds
\* the post-action state, and the text under the session key is the one
\* saveToStorage writes for that state
SavedLatestState ==
  /\ ssDispatch.returned = ssDispatch.result
  /\ ssStore = ssDispatch.reduced
  /\ getItem(sessionStorage(ssStorage, FALSE), sessionKey)
       = ToText(JSONstringify(createBackup(ssStore, stateBackupInterface)))

\* C37: for every dispatched action next(action) completes first, then one
\* saveToStorage is done with createBackup of the post-action state under
\* the session key, and the middleware returns the result of next; after any
\* sequence of dispatches the stored snapshot is that of the latest state.
C37_SavedAfterEveryDispatch ==
  ssDispatch # NoCall => SavedLatestState

\* the part of C37 that the middleware does: a dispatch whose save does not
\* throw returns the result of next and leaves the snapshot of the
\* post-action state under the session key
SavedWhenStorageAccepts ==
  (/\ ssDispatch # NoCall
   /\ IF ssDispatch # NoCall
      THEN /\ ~ssDispatch.throws
           /\ ~IsThrown(createBackup(ssDispatch.reduced, stateBackupInterface))
      ELSE FALSE)
    => SavedLatestState

(***************************************************************************)
(* Properties of the scope of the bookkeeping of loadBackup.               *)
(***************************************************************************)
\* the keys a call on the tree can ask LoadKey for: the keys the tree
\* declares and the keys its own codecs pass to needs and update
AskedFor(tree) ==
  Range(tree.order)
    \cup UNION {TouchedBy(tree.kids[k]) :
                 k \in {x \in DOMAIN tree.kids : IsCodec(tree.kids[x])}}

\* some codec of the tree passes the key to update
UpdatedWithin(tree, dep) ==
  \E k \in DOMAIN tree.kids :
    IF IsCodec(tree.kids[k])
    THEN \E i \in 1..Len(tree.kids[k].ops) :
           /\ tree.kids[k].ops[i].op = "update"
           /\ tree.kids[k].ops[i].key = dep
    ELSE FALSE

\* what needs(dep) returns to a codec of the tree, when no codec of the tree
\* updates either key: the value this call loaded for a key of the tree
\* (undefined while that key's own load is in progress), undefined for a key
\* the tree does not declare
NeededWithin(call, tree, k) ==
  \A dep \in NeedsOf(tree.kids[k]) :
    (/\ tree.kids[k].ret.r = "pair"
     /\ Get(call.loaded, k) # Undef
     /\ ~UpdatedWithin(tree, k)
     /\ ~UpdatedWithin(tree, dep))
      => IF dep \in DOMAIN tree.kids
         THEN IF \E i \in 1..Len(call.early) : call.early[i].key = dep
              THEN Get(call.loaded, k).needed \in {Undef, Get(call.loaded, dep)}
              ELSE Get(call.loaded, k).needed = Get(call.loaded, dep)
         ELSE Get(call.loaded, k).needed = Undef

\* the bookkeeping a call on the tree ended with is that of a call that
\* started with nothing loaded: every key of the tree was entered by this
\* call, only keys this tree can ask for were entered, the keys loaded are
\* those entered, needs was answered from this call's loaded values, and
\* loadQueue is empty after a normal return
ScopedToCall(call, tree) ==
  call.err = "none"
    => /\ call.loadQueue = <<>>
       /\ Range(tree.order) \subseteq Range(call.entered)
       /\ Range(call.entered) \subseteq AskedFor(tree)
       /\ call.loadedKeys = Range(call.entered)
       /\ DOMAIN call.loaded \subseteq AskedFor(tree)
       /\ \A k \in DOMAIN tree.kids :
            IsCodec(tree.kids[k]) => NeededWithin(call, tree, k)

\* the calls made for nested trees, each with the tree it was made for
NestedScoped(call, tree) ==
  \A i \in 1..Len(call.nested) :
    ScopedToCall(call.nested[i].call, tree.kids[call.nested[i].key])

\* C38: dependency tracking is scoped to one loadBackup call: every call,
\* the nested call made for a nested tree included, starts with empty
\* loadedKeys, loadQueue and loaded, a nested codec's needs and update
\* resolve against the keys of its own tree only, and loadQueue is empty
\* again whenever a call returns normally.
C38_TrackingScopedToCall ==
  /\ lbPc # "ready"
       => /\ ScopedToCall(lbCall, lbTree)
          /\ NestedScoped(lbCall, lbTree)
          /\ lbCall.err = "none" => Len(lbCall.nested) = 1
  /\ lbPc = "done"
       => /\ ScopedToCall(lbRefCall, Tree(RefOrder, lbTree.kids))
          /\ NestedScoped(lbRefCall, Tree(RefOrder, lbTree.kids))
\* the nested tree's codec for b asked for a and got the nested a, while the
\* outer a was already loaded; the nested codec for a asked for shared, which
\* its tree does not declare, and got undefined
C38_Witness ==
  /\ lbPc = "done"
  /\ lbCall.err = "none"
  /\ lbTree.order = <<"a", "b", "shared">>
  /\ lbTree.kids["shared"].kids["a"] = NeedsCodec("shared")
  /\ lbTree.kids["shared"].kids["b"] = NeedsCodec("a")
  /\ Get(lbCall.loaded, "a") = Num(3)
  /\ Len(lbCall.nested) = 1
  /\ lbCall.nested[1].call.loadedKeys = {"a", "b", "shared"}
  /\ Get(lbCall.nested[1].call.loaded, "a") = [data |-> Num(4), needed |-> Undef]
  /\ Get(lbCall.nested[1].call.loaded, "b").needed
       = [data |-> Num(4), needed |-> Undef]

====
